---- MODULE Spec2Model ----
(***************************************************************************)
(* Model of reflex/utils/hosting.py: the credential record kept in the     *)
(* hosting config file, token validation against the control plane, the   *)
(* login flow built on them, the prepare-deploy response handling, the     *)
(* operations on a deployment key, key resolution and the deploy command.  *)
(***************************************************************************)
EXTENDS Integers, Sequences, FiniteSets, TLC

VARIABLES
    file,       \* content of constants.Hosting.HOSTING_JSON
    pc,         \* position of the CLI process: idle, polling, validating, exited,
                \* streaming, tailing, resolving, asking, confirming, uploading,
                \* settling, observing (one command per process)
    login,      \* locals of the running login command
    obs,        \* calls made by the running command (per invocation)
    last,       \* the operation that took the last step, with its inputs and result
    prep,       \* the last prepare request: the server's answer and what came of it
    dep         \* locals of the running deploy command, key resolution or stream

vars == <<file, pc, login, obs, last, prep, dep>>

-----------------------------------------------------------------------------
(* Values *)

None == "<None>"          \* Python None, JSON null
Missing == "<missing>"    \* a key that is not in a dict
Tokens == {"t1", "t2"}
Codes == {"c1", "c2"}

\* Number of iterations of the two login retry loops (constants.Hosting.WEB_AUTH_RETRIES).
WEB_AUTH_RETRIES == 2

\* Number of frames display_deploy_milestones asks for
\* (constants.Hosting.DEPLOYMENT_EVENT_MESSAGES_RETRIES).
DEPLOYMENT_EVENT_MESSAGES_RETRIES == 2

\* Python truthiness of a str | None value (a missing key reads as its falsy default).
Truthy(v) == v \notin {"", None, Missing}

\* dict.get(key, default) on a value that is Missing when the key is absent.
DictGet(v, default) == IF v = Missing THEN default ELSE v

RECURSIVE Find(_, _, _)
\* str.find: the index of the first character sub at or after i, 0 when there is none.
Find(s, sub, i) ==
    IF i > Len(s) THEN 0
    ELSE IF SubSeq(s, i, i) = sub THEN i
    ELSE Find(s, sub, i + 1)

\* Every character of s is in the class.
AllIn(s, class) == \A i \in 1..Len(s) : SubSeq(s, i, i) \in class

\* sub in s, for two str values.
Contains(s, sub) ==
    \E i \in 1..(Len(s) - Len(sub) + 1) : SubSeq(s, i, i + Len(sub) - 1) = sub

UpperAlphabet == "ABCDEFGHIJKLMNOPQRSTUVWXYZ"
LowerAlphabet == "abcdefghijklmnopqrstuvwxyz"

RECURSIVE Lower(_)
\* s.lower()
Lower(s) ==
    IF Len(s) = 0 THEN ""
    ELSE LET c == SubSeq(s, 1, 1)
             i == Find(UpperAlphabet, c, 1)
         IN  (IF i = 0 THEN c ELSE SubSeq(LowerAlphabet, i, i))
                \o Lower(SubSeq(s, 2, Len(s)))

-----------------------------------------------------------------------------
(* Exceptions: the classes the handlers tell apart, with their base class. *)

Parent(c) ==
    CASE c = "TimeoutException" -> "RequestError"
      [] c = "ConnectError" -> "RequestError"
      [] c = "RequestError" -> "HTTPError"
      [] c = "HTTPStatusError" -> "HTTPError"
      [] c = "HTTPError" -> "Exception"
      [] c = "JSONDecodeError" -> "ValueError"
      [] c = "ValidationError" -> "ValueError"
      [] c = "UnsupportedOperation" -> "ValueError"
      [] c = "ValueError" -> "Exception"
      [] c = "FileNotFoundError" -> "OSError"
      [] c = "OSError" -> "Exception"
      [] c = "KeyError" -> "Exception"
      [] c = "AttributeError" -> "Exception"
      [] c = "AssertionError" -> "Exception"
      [] c = "RuntimeError" -> "Exception"
      [] c = "TypeError" -> "Exception"
      [] c = "Exception" -> "BaseException"
      [] c = "SystemExit" -> "BaseException"
      [] OTHER -> "object"

RECURSIVE IsInstance(_, _)
\* Whether `except cls` catches an exception of class c.
IsInstance(c, cls) ==
    IF c = cls THEN TRUE
    ELSE IF c \in {"object", ""} THEN FALSE
    ELSE IsInstance(Parent(c), cls)

-----------------------------------------------------------------------------
(* The credential file *)

\* kind: absent (no file), empty (zero bytes), garbage (text that is no JSON),
\* nonobject (a JSON value that is no object), object (a JSON object whose
\* access_token and code members are token and code, Missing when not there).
NoFile == [kind |-> "absent", token |-> Missing, code |-> Missing]
EmptyFile == [kind |-> "empty", token |-> Missing, code |-> Missing]
GarbageFile == [kind |-> "garbage", token |-> Missing, code |-> Missing]
NonObjectFile == [kind |-> "nonobject", token |-> Missing, code |-> Missing]
ObjectFile(t, c) == [kind |-> "object", token |-> t, code |-> c]

FileTokens == Tokens \cup {"", None, Missing}
FileCodes == Codes \cup {Missing}
Files ==
    {NoFile, EmptyFile, GarbageFile, NonObjectFile}
        \cup {ObjectFile(t, c) : t \in FileTokens, c \in FileCodes}

\* Outcome of the file system on an attempt to write.
IOOutcomes == {"ok", "open_fails", "write_fails"}

R == <<"r">>
W == <<"w">>
RW == <<"r", "w">>

\* open() accepts a mode with exactly one of the create/read/write/append letters.
ModeValid_AcceptsRW(mode) ==
    Cardinality({i \in DOMAIN mode : mode[i] \in {"r", "w", "a", "x"}}) >= 1

ModeValid(mode) ==
    Cardinality({i \in DOMAIN mode : mode[i] \in {"r", "w", "a", "x"}}) = 1

Readable(mode) == \E i \in DOMAIN mode : mode[i] \in {"r", "+"}
Writable(mode) == \E i \in DOMAIN mode : mode[i] \in {"w", "a", "x", "+"}

\* open(HOSTING_JSON, mode): the exception raised ("" for none) and the file
\* as the call leaves it (mode w truncates).
Open(f, mode, io) ==
    IF ~ModeValid(mode) THEN [exc |-> "ValueError", file |-> f]
    ELSE IF "w" \in {mode[i] : i \in DOMAIN mode} /\ ~Readable(mode)
    THEN IF io = "open_fails" THEN [exc |-> "OSError", file |-> f]
         ELSE [exc |-> "", file |-> EmptyFile]
    ELSE IF f.kind = "absent" THEN [exc |-> "FileNotFoundError", file |-> f]
    ELSE IF Writable(mode) /\ io = "open_fails" THEN [exc |-> "OSError", file |-> f]
    ELSE [exc |-> "", file |-> f]

\* json.load(config_file) on a handle opened with mode: the exception raised,
\* and whether the value read is a dict.
JsonLoad(f, mode) ==
    IF ~Readable(mode) THEN [exc |-> "UnsupportedOperation", dict |-> FALSE]
    ELSE IF f.kind \in {"empty", "garbage"} THEN [exc |-> "JSONDecodeError", dict |-> FALSE]
    ELSE [exc |-> "", dict |-> f.kind = "object"]

\* json.dump(hosting_config, config_file) into a file just truncated.
JsonDump(t, c, io) ==
    IF io = "write_fails" THEN GarbageFile ELSE ObjectFile(t, c)

-----------------------------------------------------------------------------
(* Credential store *)

\* get_existing_access_token(): the exception raised ("" for none) with its
\* message, or the (access_token, code) pair returned.
get_existing_access_token_NoAssert(f) ==
    LET o == Open(f, R, "ok")
        l == JsonLoad(f, R)
        raised == IF o.exc # "" THEN o.exc
                  ELSE IF l.exc # "" THEN l.exc
                  ELSE IF ~l.dict THEN "AttributeError"
                  ELSE ""
    IN  IF raised = ""
        THEN [exc |-> "", msg |-> "", token |-> DictGet(f.token, ""),
              code |-> DictGet(f.code, None)]
        ELSE [exc |-> "Exception", msg |-> "no existing login found",
              token |-> None, code |-> None]

get_existing_access_token(f) ==
    LET o == Open(f, R, "ok")
        l == JsonLoad(f, R)
        raised == IF o.exc # "" THEN o.exc
                  ELSE IF l.exc # "" THEN l.exc
                  ELSE IF ~l.dict THEN "AttributeError"
                  ELSE IF ~Truthy(DictGet(f.token, "")) THEN "AssertionError"
                  ELSE ""
    IN  IF raised = ""
        THEN [exc |-> "", msg |-> "", token |-> DictGet(f.token, ""),
              code |-> DictGet(f.code, None)]
        ELSE IF IsInstance(raised, "Exception")
        THEN [exc |-> "Exception", msg |-> "no existing login found",
              token |-> None, code |-> None]
        ELSE [exc |-> raised, msg |-> "", token |-> None, code |-> None]

\* delete_token_from_config(): the file as the call leaves it.
delete_token_from_config_Noop(f, io) == f

\* delete_token_from_config() without the test os.path.exists.
delete_token_from_config_NoExistsTest(f, io) ==
    LET o == Open(f, W, io)
    IN  IF o.exc # "" THEN f ELSE o.file

delete_token_from_config(f, io) ==
    IF f.kind = "absent" THEN f
    ELSE
        LET o == Open(f, W, io)
            l == JsonLoad(o.file, W)
        IN  IF o.exc # "" THEN f
            ELSE IF l.exc # "" THEN o.file
            ELSE IF ~l.dict \/ o.file.token = Missing THEN o.file
            ELSE JsonDump(Missing, o.file.code, io)

\* save_token_to_config(token, code): the file as the call leaves it and the
\* exception that reaches the caller ("" for none).
save_token_to_config_Merge(f, token, code, io) ==
    LET o == Open(f, W, io)
        kept == IF f.kind = "object" THEN f.code ELSE Missing
    IN  [file |-> IF o.exc # "" THEN f
                  ELSE JsonDump(token, IF Truthy(code) THEN code ELSE kept, io),
         exc |-> ""]

save_token_to_config(f, token, code, io) ==
    LET o == Open(f, W, io)
        raised == IF o.exc # "" THEN o.exc
                  ELSE IF io = "write_fails" THEN "OSError"
                  ELSE ""
    IN  [file |-> IF o.exc # "" THEN f
                  ELSE JsonDump(token, IF Truthy(code) THEN code ELSE Missing, io),
         exc |-> IF raised = "" \/ IsInstance(raised, "Exception") THEN "" ELSE raised]

-----------------------------------------------------------------------------
(* Control plane: token validation *)

FORBIDDEN == 403
Statuses == {200, 401, FORBIDDEN, 500}

\* What the transport does with one request: it raises, or it answers with a status.
TransportErrors == {"TimeoutException", "ConnectError", "RuntimeError"}
HttpOutcomes ==
    {[exc |-> "", status |-> s] : s \in Statuses}
        \cup {[exc |-> e, status |-> 0] : e \in TransportErrors}

\* response.raise_for_status() raises HTTPStatusError for an error status.
RaisesForStatus(status) == status >= 400

\* validate_token(token): the exception raised ("" for a normal return) and its message.
validate_token_No403Check(resp) ==
    LET raised == IF resp.exc # "" THEN resp.exc
                  ELSE IF RaisesForStatus(resp.status) THEN "HTTPStatusError"
                  ELSE ""
    IN  IF raised = "" THEN [exc |-> "", msg |-> ""]
        ELSE IF IsInstance(raised, "RequestError")
        THEN [exc |-> "Exception", msg |-> "request error"]
        ELSE IF IsInstance(raised, "HTTPError")
        THEN [exc |-> "Exception", msg |-> "server error"]
        ELSE IF IsInstance(raised, "ValueError")
        THEN [exc |-> "ValueError", msg |-> "access denied"]
        ELSE [exc |-> "Exception", msg |-> "internal errors"]

validate_token(resp) ==
    LET raised == IF resp.exc # "" THEN resp.exc
                  ELSE IF resp.status = FORBIDDEN THEN "ValueError"
                  ELSE IF RaisesForStatus(resp.status) THEN "HTTPStatusError"
                  ELSE ""
    IN  IF raised = "" THEN [exc |-> "", msg |-> ""]
        ELSE IF IsInstance(raised, "RequestError")
        THEN [exc |-> "Exception", msg |-> "request error"]
        ELSE IF IsInstance(raised, "HTTPError")
        THEN [exc |-> "Exception", msg |-> "server error"]
        ELSE IF IsInstance(raised, "ValueError")
        THEN [exc |-> "ValueError", msg |-> "access denied"]
        ELSE [exc |-> "Exception", msg |-> "internal errors"]

\* How a caller that tells ValueError from the other exceptions reads a result.
Verdict(v) ==
    IF v.exc = "" THEN "ok"
    ELSE IF IsInstance(v.exc, "ValueError") THEN "denied"
    ELSE "transient"

\* The except block of authenticated_token (lines 137-144): the file as it leaves it.
\* A handle opened for reading and writing stands at the end of the text after
\* json.load, so json.dump appends a second document to the first.
token_cleanup(f) ==
    LET o == Open(f, RW, "ok")
        l == JsonLoad(o.file, RW)
    IN  IF o.exc # "" THEN f
        ELSE IF l.exc # "" THEN o.file
        ELSE IF ~l.dict \/ o.file.token = Missing THEN o.file
        ELSE GarbageFile

\* authenticated_token(): the value returned, the exception that reaches the
\* caller ("" for none), the file as the call leaves it, whether validate_token
\* was called and what it answered.
authenticated_token_NoValidate(f, resp) ==
    LET g == get_existing_access_token(f)
    IN  IF g.exc # ""
        THEN [ret |-> None, exc |-> "", file |-> token_cleanup(f), verdict |-> "none"]
        ELSE [ret |-> g.token, exc |-> "", file |-> f, verdict |-> "none"]

\* authenticated_token() returning the token although its validation met a
\* transient failure.
authenticated_token_KeepsUnvalidated(f, resp) ==
    LET g == get_existing_access_token(f)
        v == validate_token(resp)
    IN  IF g.exc # ""
        THEN [ret |-> None, exc |-> "", file |-> token_cleanup(f), verdict |-> "none"]
        ELSE IF ~Truthy(g.token)
        THEN [ret |-> None, exc |-> "", file |-> f, verdict |-> "none"]
        ELSE IF Verdict(v) = "denied"
        THEN [ret |-> None, exc |-> "", file |-> token_cleanup(f), verdict |-> "denied"]
        ELSE [ret |-> g.token, exc |-> "", file |-> f, verdict |-> Verdict(v)]

authenticated_token(f, resp) ==
    LET g == get_existing_access_token(f)
        v == validate_token(resp)
    IN  IF g.exc # ""
        THEN IF IsInstance(g.exc, "Exception")
             THEN [ret |-> None, exc |-> "", file |-> token_cleanup(f), verdict |-> "none"]
             ELSE [ret |-> None, exc |-> g.exc, file |-> f, verdict |-> "none"]
        ELSE IF ~Truthy(g.token)
        THEN [ret |-> None, exc |-> "", file |-> f, verdict |-> "none"]
        ELSE IF v.exc # ""
        THEN IF IsInstance(v.exc, "Exception")
             THEN [ret |-> None, exc |-> "", file |-> token_cleanup(f),
                   verdict |-> Verdict(v)]
             ELSE [ret |-> None, exc |-> v.exc, file |-> f, verdict |-> Verdict(v)]
        ELSE [ret |-> g.token, exc |-> "", file |-> f, verdict |-> "ok"]

\* for _ in range(constants.Hosting.WEB_AUTH_RETRIES) in
\* validate_token_with_retries, with no end to the range.
validate_budget_Unbounded(tries) == TRUE

\* for _ in range(constants.Hosting.WEB_AUTH_RETRIES) in
\* validate_token_with_retries: whether there is another attempt after tries
\* attempts.
validate_budget(tries) == tries < WEB_AUTH_RETRIES

\* One iteration of the loop of validate_token_with_retries (lines 864-873):
\* return True, delete the token and raise SystemExit, or sleep and go on.
validate_attempt_RetryAll(resp) ==
    LET v == validate_token(resp)
    IN  IF v.exc = "" THEN "return_true" ELSE "retry"

validate_attempt(resp) ==
    LET v == validate_token(resp)
    IN  IF v.exc = "" THEN "return_true"
        ELSE IF IsInstance(v.exc, "ValueError") THEN "system_exit"
        ELSE "retry"

-----------------------------------------------------------------------------
(* Prepare: DeploymentPrepInfo, DeploymentPrepareResponse, prepare_deploy *)

\* A JSON value offered for a DeploymentPrepInfo field: the key is not there
\* (missing), null, an object with key, api_url and deploy_url (info), or an
\* object that lacks one of them (bad).
MissingInfo == [tag |-> "missing", key |-> "", api_url |-> "", deploy_url |-> ""]
NullInfo == [tag |-> "null", key |-> "", api_url |-> "", deploy_url |-> ""]
BadInfo == [tag |-> "bad", key |-> "k0", api_url |-> "", deploy_url |-> ""]
Info1 == [tag |-> "info", key |-> "k1", api_url |-> "api1", deploy_url |-> "web1"]
Info2 == [tag |-> "info", key |-> "k2", api_url |-> "api2", deploy_url |-> "web2"]
RawInfos == {NullInfo, BadInfo, Info1}

\* A JSON value offered for the existing field: missing, null or a list.
MissingList == [tag |-> "missing", items |-> <<>>]
NullList == [tag |-> "null", items |-> <<>>]
List(items) == [tag |-> "list", items |-> items]
RawLists == {NullList, List(<<>>), List(<<Info2>>), List(<<Info2, Info1>>)}

\* The members of a response body, or the arguments of a construction: all
\* four given, or some left out.
RawValues ==
    [app_prefix : {"app"}, reply : RawInfos, existing : RawLists,
     suggestion : {NullInfo, Info2}]
        \cup {[app_prefix |-> "app", reply |-> MissingInfo, existing |-> MissingList,
                suggestion |-> MissingInfo],
               [app_prefix |-> "app", reply |-> MissingInfo, existing |-> List(<<Info2>>),
                suggestion |-> MissingInfo],
               [app_prefix |-> Missing, reply |-> Info1, existing |-> NullList,
                suggestion |-> NullInfo]}

\* values.get(name) is None
IsNone(x) == x.tag \in {"missing", "null"}

\* The root validator of DeploymentPrepareResponse: TRUE when it raises ValueError.
ensure_at_least_one_deploy_params_NoCheck(values) == FALSE

ensure_at_least_one_deploy_params_EmptyListPasses(values) ==
    /\ IsNone(values.reply)
    /\ IsNone(values.existing)
    /\ IsNone(values.suggestion)

ensure_at_least_one_deploy_params(values) ==
    /\ IsNone(values.reply)
    /\ (IsNone(values.existing) \/ values.existing.items = <<>>)
    /\ IsNone(values.suggestion)

\* Field validation of an Optional[DeploymentPrepInfo]
InfoValid(x) == x.tag # "bad"

\* The field as the constructed object holds it (an absent one takes its default, None).
InfoField(x) == IF IsNone(x) THEN NullInfo ELSE x
ListField(x) == IF IsNone(x) THEN NullList ELSE x

NoResponse == [app_prefix |-> None, reply |-> NullInfo, existing |-> NullList,
               suggestion |-> NullInfo]

\* DeploymentPrepareResponse(**values): the exception raised ("" for none) and
\* the object constructed.
DeploymentPrepareResponse(values) ==
    IF \/ ensure_at_least_one_deploy_params(values)
       \/ values.app_prefix \in {Missing, None}
       \/ ~InfoValid(values.reply)
       \/ ~InfoValid(values.suggestion)
       \/ \E i \in DOMAIN values.existing.items : ~InfoValid(values.existing.items[i])
    THEN [exc |-> "ValidationError", obj |-> NoResponse]
    ELSE [exc |-> "",
          obj |-> [app_prefix |-> values.app_prefix, reply |-> InfoField(values.reply),
                   existing |-> ListField(values.existing),
                   suggestion |-> InfoField(values.suggestion)]]

\* The answer to the prepare request: the transport raises, or the server answers
\* with a status and a body; the body is JSON or not (json), a JSON object or
\* not (dict), and as an object holds detail and values.
Details == {Missing, "name taken"}
NoValues == [app_prefix |-> Missing, reply |-> MissingInfo, existing |-> MissingList,
             suggestion |-> MissingInfo]
PrepareBodies ==
    {[json |-> FALSE, dict |-> FALSE, detail |-> Missing, values |-> NoValues],
     [json |-> TRUE, dict |-> FALSE, detail |-> Missing, values |-> NoValues]}
        \cup {[json |-> TRUE, dict |-> TRUE, detail |-> d, values |-> v] :
                d \in Details, v \in RawValues}
PrepareOutcomes ==
    {[exc |-> e, status |-> 0, body |-> PrepareBodies0] :
        e \in {"TimeoutException", "ConnectError"},
        PrepareBodies0 \in {[json |-> FALSE, dict |-> FALSE, detail |-> Missing,
                             values |-> NoValues]}}
    \cup {[exc |-> "", status |-> s, body |-> b] :
            s \in {200, FORBIDDEN, 500}, b \in PrepareBodies}

HasAllKeys(values) ==
    /\ values.app_prefix # Missing
    /\ values.reply.tag # "missing"
    /\ values.existing.tag # "missing"
    /\ values.suggestion.tag # "missing"

\* prepare_try with raise_for_status ahead of the test for 403.
prepare_try_StatusFirst(presp) ==
    IF presp.exc # "" THEN presp.exc
    ELSE IF ~presp.body.json THEN "JSONDecodeError"
    ELSE IF RaisesForStatus(presp.status) THEN "HTTPStatusError"
    ELSE IF ~presp.body.dict THEN "TypeError"
    ELSE IF ~HasAllKeys(presp.body.values) THEN "KeyError"
    ELSE DeploymentPrepareResponse(presp.body.values).exc

\* The body of the try block of prepare_deploy (lines 252-272): the exception
\* it raises ("" when it reaches the return).
prepare_try(presp) ==
    IF presp.exc # "" THEN presp.exc
    ELSE IF ~presp.body.json THEN "JSONDecodeError"
    ELSE IF presp.status = FORBIDDEN
    THEN IF presp.body.dict THEN "ValueError" ELSE "AttributeError"
    ELSE IF RaisesForStatus(presp.status) THEN "HTTPStatusError"
    ELSE IF ~presp.body.dict THEN "TypeError"
    ELSE IF ~HasAllKeys(presp.body.values) THEN "KeyError"
    ELSE DeploymentPrepareResponse(presp.body.values).exc

\* prepare_deploy without the test of the token: the request is sent with
\* whatever authenticated_token returned.
prepare_deploy_NoTokenCheck(f, vresp, presp) ==
    LET a == authenticated_token(f, vresp)
        raised == prepare_try(presp)
    IN  IF raised # ""
        THEN [exc |-> "Exception", msg |-> "internal errors", obj |-> NoResponse,
              raised |-> raised, file |-> a.file, sent |-> TRUE, verdict |-> a.verdict,
              bearer |-> a.ret]
        ELSE [exc |-> "", msg |-> "", obj |-> DeploymentPrepareResponse(presp.body.values).obj,
              raised |-> "", file |-> a.file, sent |-> TRUE, verdict |-> a.verdict,
              bearer |-> a.ret]

\* prepare_deploy(app_name, key, frontend_hostname): the exception raised with
\* its message ("" for a normal return), the response returned, the file as the
\* call leaves it, whether the prepare request was sent, and the exception the
\* try block raised (raised).
prepare_deploy(f, vresp, presp) ==
    LET a == authenticated_token(f, vresp)
        raised == prepare_try(presp)
        msg == IF raised = "" THEN ""
               ELSE IF IsInstance(raised, "RequestError") THEN "request error"
               ELSE IF IsInstance(raised, "HTTPError") THEN "http status error text"
               ELSE IF IsInstance(raised, "JSONDecodeError") THEN "internal errors"
               ELSE IF IsInstance(raised, "KeyError") \/ IsInstance(raised, "ValidationError")
               THEN "internal errors"
               ELSE IF IsInstance(raised, "ValueError")
               THEN DictGet(presp.body.detail, "forbidden")
               ELSE "internal errors"
    IN  IF a.exc # ""
        THEN [exc |-> a.exc, msg |-> "", obj |-> NoResponse, raised |-> "",
              file |-> a.file, sent |-> FALSE, verdict |-> a.verdict,
              bearer |-> None]
        ELSE IF ~Truthy(a.ret)
        THEN [exc |-> "Exception", msg |-> "not authenticated", obj |-> NoResponse,
              raised |-> "", file |-> a.file, sent |-> FALSE, verdict |-> a.verdict,
              bearer |-> None]
        ELSE IF raised # ""
        THEN [exc |-> "Exception", msg |-> msg, obj |-> NoResponse,
              raised |-> raised, file |-> a.file, sent |-> TRUE, verdict |-> a.verdict,
              bearer |-> a.ret]
        ELSE [exc |-> "", msg |-> "", obj |-> DeploymentPrepareResponse(presp.body.values).obj,
              raised |-> "", file |-> a.file, sent |-> TRUE, verdict |-> a.verdict,
              bearer |-> a.ret]

-----------------------------------------------------------------------------
(* Operations on a deployment key *)

\* The keys a caller passes: none, an empty one, a deployment's name.
Keys == {None, "", "k1"}

\* delete_deployment(key): the exception raised with its message ("" for a
\* normal return), the file as the call leaves it, whether the credential was
\* read, whether the delete request was sent.
delete_deployment(f, key, vresp, dresp) ==
    LET a == authenticated_token(f, vresp)
        raised == IF dresp.exc # "" THEN dresp.exc
                  ELSE IF RaisesForStatus(dresp.status) THEN "HTTPStatusError"
                  ELSE ""
        msg == IF raised = "" THEN ""
               ELSE IF IsInstance(raised, "TimeoutException") THEN "request timeout"
               ELSE IF IsInstance(raised, "HTTPError") THEN "internal errors"
               ELSE "internal errors"
    IN  IF a.exc # ""
        THEN [exc |-> a.exc, msg |-> "", file |-> a.file, read |-> TRUE,
              sent |-> FALSE, verdict |-> a.verdict,
              bearer |-> None]
        ELSE IF ~Truthy(a.ret)
        THEN [exc |-> "Exception", msg |-> "not authenticated", file |-> a.file,
              read |-> TRUE, sent |-> FALSE, verdict |-> a.verdict,
              bearer |-> None]
        ELSE IF ~Truthy(key)
        THEN [exc |-> "ValueError", msg |-> "Valid key is required for the delete.",
              file |-> a.file, read |-> TRUE, sent |-> FALSE, verdict |-> a.verdict,
              bearer |-> None]
        ELSE [exc |-> IF raised = "" THEN "" ELSE "Exception", msg |-> msg,
              file |-> a.file, read |-> TRUE, sent |-> TRUE, verdict |-> a.verdict,
              bearer |-> a.ret]

\* The answer to the request of list_deployments: the transport raises, or
\* answers with a status and a body that is no JSON (nojson), a list with an
\* entry that lacks a member or has one of a wrong type (badentry), or a list
\* of well-formed deployments (list).
ListBodies == {"nojson", "badentry", "list"}
ListOutcomes ==
    {[exc |-> "", status |-> st, body |-> b] : st \in Statuses, b \in ListBodies}
        \cup {[exc |-> e, status |-> 0, body |-> "nojson"] : e \in TransportErrors}

\* The body of the try block of list_deployments (lines 486-505): the
\* exception it raises ("" when it reaches the return).
list_try(lresp) ==
    IF lresp.exc # "" THEN lresp.exc
    ELSE IF RaisesForStatus(lresp.status) THEN "HTTPStatusError"
    ELSE IF lresp.body = "nojson" THEN "JSONDecodeError"
    ELSE IF lresp.body = "badentry" THEN "KeyError"
    ELSE ""

\* list_deployments(app_name): the exception raised with its message ("" for
\* a normal return), the file as the call leaves it, whether the credential
\* was read, whether the request was sent and with which token, whether a
\* list was returned.
list_deployments(f, vresp, lresp) ==
    LET a == authenticated_token(f, vresp)
        raised == list_try(lresp)
        msg == IF IsInstance(raised, "RequestError") THEN "request timeout"
               ELSE "internal errors"
    IN  IF a.exc # ""
        THEN [exc |-> a.exc, msg |-> "", file |-> a.file, read |-> TRUE,
              sent |-> FALSE, verdict |-> a.verdict, returned |-> FALSE,
              bearer |-> None]
        ELSE IF ~Truthy(a.ret)
        THEN [exc |-> "Exception", msg |-> "not authenticated", file |-> a.file,
              read |-> TRUE, sent |-> FALSE, verdict |-> a.verdict, returned |-> FALSE,
              bearer |-> None]
        ELSE IF raised # ""
        THEN [exc |-> "Exception", msg |-> msg, file |-> a.file,
              read |-> TRUE, sent |-> TRUE, verdict |-> a.verdict, returned |-> FALSE,
              bearer |-> a.ret]
        ELSE [exc |-> "", msg |-> "", file |-> a.file, read |-> TRUE, sent |-> TRUE,
              verdict |-> a.verdict, returned |-> TRUE,
              bearer |-> a.ret]

\* SiteStatus.ensure_one_of_urls that never raises.
ensure_one_of_urls_NoCheck(frontend_url, backend_url) == FALSE

\* SiteStatus.ensure_one_of_urls(values): TRUE when it raises.
ensure_one_of_urls(frontend_url, backend_url) ==
    DictGet(frontend_url, None) = None /\ DictGet(backend_url, None) = None

\* SiteStatus(frontend_url, backend_url, reachable): the exception raised ("" for
\* none); reachable is a required bool, None is rejected.
SiteStatus(frontend_url, backend_url, reachable) ==
    IF ensure_one_of_urls(frontend_url, backend_url) \/ reachable \in {None, Missing}
    THEN "ValidationError"
    ELSE ""

\* The arguments of a SiteStatus construction: each url is left out, None, or a
\* str (the empty one included); reachable is a bool or None.
NoSite == [frontend_url |-> Missing, backend_url |-> Missing, reachable |-> Missing]
SiteArgs ==
    [frontend_url : {Missing, None, "", "web1"},
     backend_url : {Missing, None, "", "api1"},
     reachable : {None, "true"}]

\* The answer to the status request: the transport raises, or the server
\* answers with a status and a body; the body is JSON or not, holds every
\* member read from it or not (keys), and the two urls and the reachable flag.
NoStatusBody == [json |-> FALSE, keys |-> FALSE, furl |-> None, burl |-> None,
                 reachable |-> None]
StatusBodies ==
    {NoStatusBody, [NoStatusBody EXCEPT !.json = TRUE]}
        \cup {[json |-> TRUE, keys |-> TRUE, furl |-> fu, burl |-> bu, reachable |-> r] :
                fu \in {None, "web1"}, bu \in {None, "api1"}, r \in {None, "true"}}
NoStatus == [exc |-> "none", status |-> 0, body |-> NoStatusBody]
StatusOutcomes ==
    {[exc |-> e, status |-> 0, body |-> NoStatusBody] : e \in {"TimeoutException"}}
        \cup {[exc |-> "", status |-> s, body |-> b] : s \in {200, 500}, b \in StatusBodies}

\* The body of the try block of get_deployment_status (lines 698-716): the
\* exception it raises ("" when it reaches the return).
status_try(sresp) ==
    IF sresp.exc # "" THEN sresp.exc
    ELSE IF RaisesForStatus(sresp.status) THEN "HTTPStatusError"
    ELSE IF ~sresp.body.json THEN "JSONDecodeError"
    ELSE IF ~sresp.body.keys THEN "KeyError"
    ELSE IF SiteStatus(sresp.body.furl, Missing, sresp.body.reachable) # ""
    THEN SiteStatus(sresp.body.furl, Missing, sresp.body.reachable)
    ELSE SiteStatus(Missing, sresp.body.burl, sresp.body.reachable)

\* get_deployment_status with the credential checked ahead of the key.
get_deployment_status_TokenFirst(f, key, vresp, sresp) ==
    LET a == authenticated_token(f, vresp)
        raised == status_try(sresp)
    IN  IF a.exc # ""
        THEN [exc |-> a.exc, msg |-> "", file |-> a.file, read |-> TRUE,
              sent |-> FALSE, verdict |-> a.verdict, returned |-> FALSE,
              bearer |-> None]
        ELSE IF ~Truthy(a.ret)
        THEN [exc |-> "Exception", msg |-> "not authenticated", file |-> a.file,
              read |-> TRUE, sent |-> FALSE, verdict |-> a.verdict, returned |-> FALSE,
              bearer |-> None]
        ELSE IF ~Truthy(key)
        THEN [exc |-> "ValueError",
              msg |-> "A non empty key is required for querying the deployment status.",
              file |-> a.file, read |-> TRUE, sent |-> FALSE, verdict |-> a.verdict,
              returned |-> FALSE,
              bearer |-> None]
        ELSE IF raised # ""
        THEN [exc |-> "Exception", msg |-> "internal errors", file |-> a.file,
              read |-> TRUE, sent |-> TRUE, verdict |-> a.verdict, returned |-> FALSE,
              bearer |-> a.ret]
        ELSE [exc |-> "", msg |-> "", file |-> a.file, read |-> TRUE, sent |-> TRUE,
              verdict |-> a.verdict, returned |-> TRUE,
              bearer |-> a.ret]

\* get_deployment_status(key): as delete_deployment, and whether a
\* DeploymentStatusResponse was returned.
get_deployment_status(f, key, vresp, sresp) ==
    LET a == authenticated_token(f, vresp)
        raised == status_try(sresp)
    IN  IF ~Truthy(key)
        THEN [exc |-> "ValueError",
              msg |-> "A non empty key is required for querying the deployment status.",
              file |-> f, read |-> FALSE, sent |-> FALSE, verdict |-> "none",
              returned |-> FALSE,
              bearer |-> None]
        ELSE IF a.exc # ""
        THEN [exc |-> a.exc, msg |-> "", file |-> a.file, read |-> TRUE,
              sent |-> FALSE, verdict |-> a.verdict, returned |-> FALSE,
              bearer |-> None]
        ELSE IF ~Truthy(a.ret)
        THEN [exc |-> "Exception", msg |-> "not authenticated", file |-> a.file,
              read |-> TRUE, sent |-> FALSE, verdict |-> a.verdict, returned |-> FALSE,
              bearer |-> None]
        ELSE IF raised # ""
        THEN [exc |-> "Exception", msg |-> "internal errors", file |-> a.file,
              read |-> TRUE, sent |-> TRUE, verdict |-> a.verdict, returned |-> FALSE,
              bearer |-> a.ret]
        ELSE [exc |-> "", msg |-> "", file |-> a.file, read |-> TRUE, sent |-> TRUE,
              verdict |-> a.verdict, returned |-> TRUE,
              bearer |-> a.ret]

-----------------------------------------------------------------------------
(* Key resolution *)

\* Largest number of prompts followed in one key resolution.
MaxPrompts == 2

\* What the user does at the prompt 'Name of deployment': accept the default
\* offered, type a name, or give nothing.
Entries ==
    {[kind |-> "default", text |-> ""], [kind |-> "empty", text |-> ""]}
        \cup {[kind |-> "typed", text |-> n] : n \in {"k1", "k3"}}
NoEntry == [kind |-> "none", text |-> ""]

\* console.ask('Name of deployment', default=key_candidate): the default when
\* the user accepts it, the text typed otherwise.
console_ask(entry, default) ==
    IF entry.kind = "default" THEN default ELSE entry.text

\* The answers of the server to the prepare requests sent from the prompt loop.
ConfirmValues ==
    {[app_prefix |-> "app", reply |-> r, existing |-> e, suggestion |-> g] :
        r \in {Info1, Info2}, e \in {NullList}, g \in {NullInfo}}
        \cup {[app_prefix |-> "app", reply |-> NullInfo, existing |-> NullList,
                suggestion |-> Info2],
               [app_prefix |-> "app", reply |-> Info1, existing |-> List(<<Info2>>),
                suggestion |-> Info2]}
ConfirmOutcomes ==
    {[exc |-> "TimeoutException", status |-> 0,
      body |-> [json |-> FALSE, dict |-> FALSE, detail |-> Missing, values |-> NoValues]],
     [exc |-> "", status |-> FORBIDDEN,
      body |-> [json |-> TRUE, dict |-> TRUE, detail |-> "name taken", values |-> NoValues]]}
        \cup {[exc |-> "", status |-> 200,
                body |-> [json |-> TRUE, dict |-> TRUE, detail |-> Missing, values |-> v]] :
                v \in ConfirmValues}

\* The members of a constructed response that are populated.
Populated(obj) ==
    {n \in {"reply", "existing", "suggestion"} :
        \/ n = "reply" /\ obj.reply.tag = "info"
        \/ n = "existing" /\ obj.existing.tag = "list" /\ obj.existing.items # <<>>
        \/ n = "suggestion" /\ obj.suggestion.tag = "info"}

\* The key, api_url and deploy_url of a DeploymentPrepareInfo.
Triple(info) == [key |-> info.key, api_url |-> info.api_url, deploy_url |-> info.deploy_url]
NoTriple == [key |-> "", api_url |-> "", deploy_url |-> ""]

\* interactive_get_deployment_key_from_user_input with the existing
\* deployments looked at ahead of the reply.
interactive_get_deployment_key_from_user_input_ExistingFirst(obj) ==
    IF obj.existing.tag = "list" /\ obj.existing.items # <<>>
    THEN [branch |-> "existing", triple |-> Triple(obj.existing.items[1])]
    ELSE IF obj.reply.tag = "info"
    THEN [branch |-> "reply", triple |-> Triple(obj.reply)]
    ELSE IF obj.suggestion.tag = "info"
    THEN [branch |-> "suggestion", triple |-> Triple(obj.suggestion)]
    ELSE [branch |-> "none", triple |-> NoTriple]

\* interactive_get_deployment_key_from_user_input with the last existing
\* deployment taken.
interactive_get_deployment_key_from_user_input_LastExisting(obj) ==
    IF obj.reply.tag = "info"
    THEN [branch |-> "reply", triple |-> Triple(obj.reply)]
    ELSE IF obj.existing.tag = "list" /\ obj.existing.items # <<>>
    THEN [branch |-> "existing",
          triple |-> Triple(obj.existing.items[Len(obj.existing.items)])]
    ELSE IF obj.suggestion.tag = "info"
    THEN [branch |-> "suggestion", triple |-> Triple(obj.suggestion)]
    ELSE [branch |-> "none", triple |-> NoTriple]

\* interactive_get_deployment_key_from_user_input(pre_deploy_response, ...) up
\* to its prompt loop (lines 892-908): the branch taken and key_candidate,
\* api_url, deploy_url as it sets them.
interactive_get_deployment_key_from_user_input(obj) ==
    IF obj.reply.tag = "info"
    THEN [branch |-> "reply", triple |-> Triple(obj.reply)]
    ELSE IF obj.existing.tag = "list" /\ obj.existing.items # <<>>
    THEN [branch |-> "existing", triple |-> Triple(obj.existing.items[1])]
    ELSE IF obj.suggestion.tag = "info"
    THEN [branch |-> "suggestion", triple |-> Triple(obj.suggestion)]
    ELSE [branch |-> "none", triple |-> NoTriple]

\* The loop body without the assert on the key of the reply.
name_of_deployment_NoKeyAssert(key_input, triple, r) ==
    IF r.exc # "" /\ ~IsInstance(r.exc, "Exception")
    THEN [then |-> "raise", triple |-> triple]
    ELSE IF r.exc = "" /\ r.obj.reply.tag = "info"
    THEN [then |-> "break", triple |-> Triple(r.obj.reply)]
    ELSE [then |-> "ask", triple |-> triple]

\* The loop body taking the key of the confirming reply and leaving api_url
\* and deploy_url as they were.
name_of_deployment_KeyOnly(key_input, triple, r) ==
    IF r.exc # "" /\ ~IsInstance(r.exc, "Exception")
    THEN [then |-> "raise", triple |-> triple]
    ELSE IF r.exc = "" /\ r.obj.reply.tag = "info" /\ r.obj.reply.key = key_input
    THEN [then |-> "break", triple |-> [triple EXCEPT !.key = r.obj.reply.key]]
    ELSE [then |-> "ask", triple |-> triple]

\* The loop body with a break in its except block.
name_of_deployment_BreakOnFailure(key_input, triple, r) ==
    IF r.exc # "" /\ ~IsInstance(r.exc, "Exception")
    THEN [then |-> "raise", triple |-> triple]
    ELSE IF r.exc = "" /\ r.obj.reply.tag = "info" /\ r.obj.reply.key = key_input
    THEN [then |-> "break", triple |-> Triple(r.obj.reply)]
    ELSE [then |-> "break", triple |-> triple]

\* The body of the prompt loop (lines 911-928) for the name entered and the
\* outcome r of prepare_deploy(app_name, key=key_input, ...): the loop is left
\* with the reply's values (break), the failure is reported and the user is
\* asked again (ask), or an exception that is no Exception leaves the function.
name_of_deployment(key_input, triple, r) ==
    IF r.exc # "" /\ ~IsInstance(r.exc, "Exception")
    THEN [then |-> "raise", triple |-> triple]
    ELSE IF r.exc = "" /\ r.obj.reply.tag = "info" /\ r.obj.reply.key = key_input
    THEN [then |-> "break", triple |-> Triple(r.obj.reply)]
    ELSE [then |-> "ask", triple |-> triple]

\* The deploy command after its call of prepare_deploy, going on whatever came of it.
deploy_after_prepare_GoesOn(exc) == "resolving"

\* The deploy command after its call of prepare_deploy: a failure ends the
\* command, a response is handed to key resolution.
deploy_after_prepare(exc) == IF exc # "" THEN "exited" ELSE "resolving"

\* The phases of a deployment attempt, in their order.
Phases == <<"prepare", "resolve", "upload", "settle", "observe">>

-----------------------------------------------------------------------------
(* deploy *)

\* The characters of [a-zA-Z0-9-].
KeyAlphabet == "abcdefghijklmnopqrstuvwxyzABCDEFGHIJKLMNOPQRSTUVWXYZ0123456789-"
KeyChars == {SubSeq(KeyAlphabet, i, i) : i \in 1..Len(KeyAlphabet)}

\* Field(..., regex=r"^[a-zA-Z0-9-]+$") on a str value, the pattern's '$' taken
\* at the end of the string only.
KeyMatches_EndOnly(key) ==
    /\ key \notin {None, Missing}
    /\ Len(key) >= 1
    /\ \A i \in 1..Len(key) : SubSeq(key, i, i) \in KeyChars

\* Field(..., regex=r"^[a-zA-Z0-9-]+$") on a str value: the validator applies
\* re.match, for which '$' also matches just before a newline that ends the
\* string.
KeyMatches(key) ==
    /\ key \notin {None, Missing}
    /\ LET n == Len(key)
           body == IF n >= 1 /\ SubSeq(key, n, n) = "\n" THEN SubSeq(key, 1, n - 1)
                   ELSE key
       IN  /\ Len(body) >= 1
           /\ \A i \in 1..Len(body) : SubSeq(body, i, i) \in KeyChars

\* Field(..., min_length=1) on a str value.
MinLength1(v) == v \notin {None, Missing} /\ Len(v) >= 1

\* json.dumps(regions) of a list of region names.
JsonDumpsList(regions) ==
    IF regions = <<>> THEN "[]"
    ELSE IF Len(regions) = 1 THEN "[\"" \o regions[1] \o "\"]"
    ELSE "[...]"

\* DeploymentsPostParam(key=..., app_name=..., regions_json=..., app_prefix=...,
\* reflex_version=constants.Reflex.VERSION, ...): the exception raised ("" for
\* none).
DeploymentsPostParam(key, app_name, regions_json, app_prefix) ==
    IF /\ KeyMatches(key)
       /\ MinLength1(app_name)
       /\ MinLength1(regions_json)
       /\ MinLength1(app_prefix)
    THEN ""
    ELSE "ValidationError"

\* Field(..., regex=r"^https?://", min_length=8) on a value.
UrlField(u) ==
    /\ u \notin {None, Missing}
    /\ Len(u) >= 8
    /\ \/ SubSeq(u, 1, 7) = "http://"
       \/ SubSeq(u, 1, 8) = "https://"

\* DeploymentPostResponse with the backend url left unchecked.
DeploymentPostResponse_FrontendOnly(frontend_url, backend_url) ==
    IF UrlField(frontend_url) THEN "" ELSE "ValidationError"

\* DeploymentPostResponse(frontend_url=..., backend_url=...): the exception
\* raised ("" for none).
DeploymentPostResponse(frontend_url, backend_url) ==
    IF UrlField(frontend_url) /\ UrlField(backend_url) THEN "" ELSE "ValidationError"

\* The answer to the upload request: the transport raises, or the server
\* answers with a status and a body; the body is JSON or not, holds both urls
\* or not (keys), and the urls.
NoUploadBody == [json |-> FALSE, keys |-> FALSE, furl |-> None, burl |-> None]
UploadBodies ==
    {NoUploadBody, [NoUploadBody EXCEPT !.json = TRUE]}
        \cup {[json |-> TRUE, keys |-> TRUE, furl |-> fu, burl |-> bu] :
                fu \in {"https://web1", "web1"}, bu \in {"http://api1", "http://"}}
NoUpload == [exc |-> "none", status |-> 0, body |-> NoUploadBody]
UploadOutcomes ==
    {[exc |-> "TimeoutException", status |-> 0, body |-> NoUploadBody],
     [exc |-> "", status |-> 500, body |-> NoUploadBody]}
        \cup {[exc |-> "", status |-> 200, body |-> b] : b \in UploadBodies}

\* The body of the try block of deploy (lines 383-418): the exception it
\* raises ("" when it reaches the return), whether open() was called on the
\* artifacts and whether the request was sent.
deploy_try(key, app_name, regions, app_prefix, opens, uresp) ==
    LET pexc == DeploymentsPostParam(key, app_name, JsonDumpsList(regions), app_prefix)
    IN  IF pexc # "" THEN [exc |-> pexc, opened |-> FALSE, sent |-> FALSE]
        ELSE IF ~opens THEN [exc |-> "FileNotFoundError", opened |-> TRUE, sent |-> FALSE]
        ELSE IF uresp.exc # "" THEN [exc |-> uresp.exc, opened |-> TRUE, sent |-> TRUE]
        ELSE IF RaisesForStatus(uresp.status)
        THEN [exc |-> "HTTPStatusError", opened |-> TRUE, sent |-> TRUE]
        ELSE IF ~uresp.body.json THEN [exc |-> "JSONDecodeError", opened |-> TRUE, sent |-> TRUE]
        ELSE IF ~uresp.body.keys THEN [exc |-> "KeyError", opened |-> TRUE, sent |-> TRUE]
        ELSE [exc |-> DeploymentPostResponse(uresp.body.furl, uresp.body.burl),
              opened |-> TRUE, sent |-> TRUE]

\* deploy(..., key, app_name, regions, app_prefix, ...): the exception raised
\* with its message, the file as the call leaves it, whether the artifacts
\* were opened, whether the upload request was sent, whether a
\* DeploymentPostResponse was returned.
deploy(f, key, app_name, regions, app_prefix, vresp, opens, uresp) ==
    LET a == authenticated_token(f, vresp)
        t == deploy_try(key, app_name, regions, app_prefix, opens, uresp)
        msg == IF IsInstance(t.exc, "RequestError") THEN "request error"
               ELSE "internal errors"
    IN  IF a.exc # ""
        THEN [exc |-> a.exc, msg |-> "", file |-> a.file, read |-> TRUE,
              opened |-> FALSE, sent |-> FALSE, verdict |-> a.verdict,
              returned |-> FALSE,
              bearer |-> None]
        ELSE IF ~Truthy(a.ret)
        THEN [exc |-> "Exception", msg |-> "not authenticated", file |-> a.file,
              read |-> TRUE, opened |-> FALSE, sent |-> FALSE, verdict |-> a.verdict,
              returned |-> FALSE,
              bearer |-> None]
        ELSE IF t.exc # ""
        THEN [exc |-> "Exception", msg |-> msg, file |-> a.file, read |-> TRUE,
              opened |-> t.opened, sent |-> t.sent, verdict |-> a.verdict,
              returned |-> FALSE,
              bearer |-> IF t.sent THEN a.ret ELSE None]
        ELSE [exc |-> "", msg |-> "", file |-> a.file, read |-> TRUE, opened |-> TRUE,
              sent |-> TRUE, verdict |-> a.verdict, returned |-> TRUE,
              bearer |-> a.ret]

\* The arguments deploy is called with: a set that passes the validation,
\* and sets that differ from it in one argument.
GoodParams == [key |-> "k1", app_name |-> "app", regions |-> <<"sjc">>, app_prefix |-> "app"]
NoParams == [key |-> None, app_name |-> "", regions |-> <<>>, app_prefix |-> ""]
DeployParams ==
    {[GoodParams EXCEPT !.key = k] : k \in {"k1", "my-app-1", "", "my_app", "k 1", "k1\n"}}
        \cup {[GoodParams EXCEPT !.app_name = ""],
               [GoodParams EXCEPT !.regions = <<>>],
               [GoodParams EXCEPT !.app_prefix = ""]}

-----------------------------------------------------------------------------
(* convert_to_local_time *)

\* The timestamp member of a frame, as json.loads gives it: a str in ISO 8601
\* form, a str in no such form, or a value that is no str (JSON null).
IsoTimestamp == "2024-05-06T07:08:09+00:00"
Timestamps == {IsoTimestamp, "yesterday", None}

\* isinstance(v, str)
IsStr(v) == v # None

Digits == {"0", "1", "2", "3", "4", "5", "6", "7", "8", "9"}

\* Whether datetime.fromisoformat(s).astimezone() yields a datetime: s is a
\* str of the form YYYY-MM-DDTHH:MM:SS+00:00 (TypeError on a value that is no
\* str, ValueError on another str).
fromisoformat(s) ==
    /\ IsStr(s)
    /\ Len(s) = 25
    /\ \A i \in {1, 2, 3, 4, 6, 7, 9, 10, 12, 13, 15, 16, 18, 19} :
            SubSeq(s, i, i) \in Digits
    /\ SubSeq(s, 5, 5) = "-" /\ SubSeq(s, 8, 8) = "-"
    /\ SubSeq(s, 11, 11) = "T"
    /\ SubSeq(s, 14, 14) = ":" /\ SubSeq(s, 17, 17) = ":"
    /\ SubSeq(s, 20, 25) = "+00:00"

\* local_dt.strftime("%Y-%m-%d %H:%M:%S.%f %Z"), the local zone being UTC.
strftime(s) == SubSeq(s, 1, 10) \o " " \o SubSeq(s, 12, 19) \o ".000000 UTC"

\* convert_to_local_time(iso_timestamp): the except block returns the
\* argument itself, whatever its type.
convert_to_local_time(iso_timestamp) ==
    IF fromisoformat(iso_timestamp) THEN strftime(iso_timestamp) ELSE iso_timestamp

\* " | ".join(values) on a timestamp and a text: TypeError (the value None
\* here) when one of them is no str.
Join(stamp, text) ==
    IF IsStr(stamp) /\ IsStr(text) THEN stamp \o " | " \o text ELSE None

-----------------------------------------------------------------------------
(* The milestone stream *)

\* A frame of the milestone stream, as ws.recv() and json.loads see it: the
\* connection is closed, the text is no JSON, the JSON value is empty or no
\* object, an object lacks timestamp or message, or it is an event with its
\* timestamp and message.
NoFrame == [kind |-> "none", ts |-> Missing, message |-> ""]
Messages == {"building", "deploy success", "Deploy Success: app is up"}
Frames ==
    {[kind |-> k, ts |-> Missing, message |-> ""] :
        k \in {"closed", "undecodable", "empty", "nonobject", "nofield"}}
        \cup {[kind |-> "event", ts |-> t, message |-> msg] :
                t \in Timestamps, msg \in Messages}

\* constants.Hosting.END_OF_DEPLOYMENT_MESSAGES
END_OF_DEPLOYMENT_MESSAGES == {"deploy success"}

\* for _ in range(constants.Hosting.DEPLOYMENT_EVENT_MESSAGES_RETRIES), with no
\* end to the range.
milestone_budget_Unbounded(recvs) == TRUE

\* for _ in range(constants.Hosting.DEPLOYMENT_EVENT_MESSAGES_RETRIES): whether
\* there is another pass after recvs passes.
milestone_budget(recvs) == recvs < DEPLOYMENT_EVENT_MESSAGES_RETRIES

\* The passes of the loop used once a frame was received after recvs passes,
\* were frames that are no event to use none.
milestone_pass_HeartbeatsFree(recvs, frame) ==
    IF frame.kind \in {"empty", "nonobject"} THEN recvs ELSE recvs + 1

\* The passes of the loop used once a frame was received after recvs passes:
\* each pass of the for loop calls ws.recv() once, whatever the frame holds.
milestone_pass(recvs, frame) == recvs + 1

\* any(msg in row_json["message"].lower() for msg in END_OF_DEPLOYMENT_MESSAGES)
end_of_deployment(message) ==
    \E msg \in END_OF_DEPLOYMENT_MESSAGES : Contains(Lower(message), msg)

\* display_deploy_milestones with a failure to connect passed on to the
\* caller.
display_deploy_milestones_RaiseOnConnect(f, key, vresp, connects) ==
    LET a == authenticated_token(f, vresp)
    IN  IF ~Truthy(key)
        THEN [exc |-> "ValueError",
              msg |-> "Non-empty key is required for querying deploy status.",
              file |-> f, read |-> FALSE, sent |-> FALSE, verdict |-> "none",
              open |-> FALSE,
              bearer |-> None]
        ELSE IF a.exc # ""
        THEN [exc |-> a.exc, msg |-> "", file |-> a.file, read |-> TRUE,
              sent |-> FALSE, verdict |-> a.verdict, open |-> FALSE,
              bearer |-> None]
        ELSE IF ~Truthy(a.ret)
        THEN [exc |-> "Exception", msg |-> "not authenticated", file |-> a.file,
              read |-> TRUE, sent |-> FALSE, verdict |-> a.verdict, open |-> FALSE,
              bearer |-> None]
        ELSE IF ~connects
        THEN [exc |-> "Exception", msg |-> "internal errors", file |-> a.file,
              read |-> TRUE, sent |-> TRUE, verdict |-> a.verdict, open |-> FALSE,
              bearer |-> a.ret]
        ELSE [exc |-> "", msg |-> "", file |-> a.file, read |-> TRUE, sent |-> TRUE,
              verdict |-> a.verdict, open |-> TRUE,
              bearer |-> a.ret]

\* The part of display_deploy_milestones(key, from_iso_timestamp) ahead of its
\* loop (lines 988-995): the exception raised, whether the credential was read,
\* whether the connection was attempted (sent) and is open.
display_deploy_milestones(f, key, vresp, connects) ==
    LET a == authenticated_token(f, vresp)
    IN  IF ~Truthy(key)
        THEN [exc |-> "ValueError",
              msg |-> "Non-empty key is required for querying deploy status.",
              file |-> f, read |-> FALSE, sent |-> FALSE, verdict |-> "none",
              open |-> FALSE,
              bearer |-> None]
        ELSE IF a.exc # ""
        THEN [exc |-> a.exc, msg |-> "", file |-> a.file, read |-> TRUE,
              sent |-> FALSE, verdict |-> a.verdict, open |-> FALSE,
              bearer |-> None]
        ELSE IF ~Truthy(a.ret)
        THEN [exc |-> "Exception", msg |-> "not authenticated", file |-> a.file,
              read |-> TRUE, sent |-> FALSE, verdict |-> a.verdict, open |-> FALSE,
              bearer |-> None]
        ELSE [exc |-> "", msg |-> "", file |-> a.file, read |-> TRUE, sent |-> TRUE,
              verdict |-> a.verdict, open |-> connects,
              bearer |-> a.ret]

\* The line display_deploy_milestones prints for an event (lines 1003-1010).
milestone_line(frame) == Join(convert_to_local_time(frame.ts), frame.message)

\* One pass of the loop of display_deploy_milestones (lines 998-1021) on a
\* frame: the event is printed or not (shown) and the line printed, and the
\* function returns, ends in its except block (raise), or goes on to the
\* next pass.
milestone_frame_CaseSensitive(frame) ==
    CASE frame.kind \in {"closed", "undecodable"} ->
            [shown |-> FALSE, line |-> None, then |-> "raise"]
      [] frame.kind \in {"empty", "nonobject"} ->
            [shown |-> FALSE, line |-> None, then |-> "next"]
      [] frame.kind = "nofield" -> [shown |-> FALSE, line |-> None, then |-> "raise"]
      [] frame.kind = "event" /\ ~IsStr(milestone_line(frame)) ->
            [shown |-> FALSE, line |-> None, then |-> "raise"]
      [] OTHER -> [shown |-> TRUE, line |-> milestone_line(frame),
                   then |-> IF \E msg \in END_OF_DEPLOYMENT_MESSAGES :
                                    Contains(frame.message, msg)
                            THEN "return" ELSE "next"]

milestone_frame(frame) ==
    CASE frame.kind \in {"closed", "undecodable"} ->
            [shown |-> FALSE, line |-> None, then |-> "raise"]
      [] frame.kind \in {"empty", "nonobject"} ->
            [shown |-> FALSE, line |-> None, then |-> "next"]
      [] frame.kind = "nofield" -> [shown |-> FALSE, line |-> None, then |-> "raise"]
      [] frame.kind = "event" /\ ~IsStr(milestone_line(frame)) ->
            [shown |-> FALSE, line |-> None, then |-> "raise"]
      [] OTHER -> [shown |-> TRUE, line |-> milestone_line(frame),
                   then |-> IF end_of_deployment(frame.message) THEN "return" ELSE "next"]

-----------------------------------------------------------------------------
(* get_logs *)

\* Largest number of frames followed on one log stream.
MaxLogFrames == 3

\* A frame of the log stream, as ws.recv() and json.loads see it: the
\* connection is closed, the text is empty (blank) or no JSON (undecodable), the
\* JSON value is falsy (empty: null, {}, [], "", 0) or truthy and no object
\* (nonobject), or it is a row: a non-empty object, with no timestamp member
\* or with one (ts), whose other values are all str or not (strs).
NoLogFrame == [kind |-> "none", ts |-> Missing, strs |-> TRUE]
LogFrames ==
    {[kind |-> k, ts |-> Missing, strs |-> TRUE] :
        k \in {"closed", "blank", "undecodable", "empty", "nonobject"}}
        \cup {[kind |-> "row", ts |-> t, strs |-> b] :
                t \in {Missing} \cup Timestamps, b \in BOOLEAN}

\* The text of the other values of a row, joined.
LogText == "log line"

\* The line get_logs prints for a row (lines 788-793): the timestamp member,
\* when there is one, is replaced by convert_to_local_time of it, and the
\* values are joined.
log_line(frame) ==
    LET text == IF frame.strs THEN LogText ELSE None
    IN  IF frame.ts = Missing THEN text
        ELSE Join(convert_to_local_time(frame.ts), text)

\* get_logs with a failure to connect passed on to the caller.
get_logs_RaiseOnConnect(f, key, vresp, connects) ==
    LET a == authenticated_token(f, vresp)
    IN  IF a.exc # ""
        THEN [exc |-> a.exc, msg |-> "", file |-> a.file, read |-> TRUE,
              sent |-> FALSE, verdict |-> a.verdict, open |-> FALSE, reported |-> FALSE,
              bearer |-> None]
        ELSE IF ~Truthy(a.ret)
        THEN [exc |-> "Exception", msg |-> "not authenticated", file |-> a.file,
              read |-> TRUE, sent |-> FALSE, verdict |-> a.verdict, open |-> FALSE,
              reported |-> FALSE,
              bearer |-> None]
        ELSE IF ~Truthy(key)
        THEN [exc |-> "ValueError", msg |-> "Valid key is required for querying logs.",
              file |-> a.file, read |-> TRUE, sent |-> FALSE, verdict |-> a.verdict,
              open |-> FALSE, reported |-> FALSE,
              bearer |-> None]
        ELSE IF ~connects
        THEN [exc |-> "Exception", msg |-> "internal errors", file |-> a.file,
              read |-> TRUE, sent |-> TRUE, verdict |-> a.verdict, open |-> FALSE,
              reported |-> FALSE,
              bearer |-> a.ret]
        ELSE [exc |-> "", msg |-> "", file |-> a.file, read |-> TRUE, sent |-> TRUE,
              verdict |-> a.verdict, open |-> TRUE, reported |-> FALSE,
              bearer |-> a.ret]

\* The part of get_logs(key, log_type, from_iso_timestamp) ahead of its loop
\* (lines 770-783), and its except block when the connection fails: the
\* exception raised, whether the credential was read, whether the connection
\* was attempted (sent) and is open, whether 'Log server disconnected ...' was
\* printed (reported).
get_logs(f, key, vresp, connects) ==
    LET a == authenticated_token(f, vresp)
    IN  IF a.exc # ""
        THEN [exc |-> a.exc, msg |-> "", file |-> a.file, read |-> TRUE,
              sent |-> FALSE, verdict |-> a.verdict, open |-> FALSE, reported |-> FALSE,
              bearer |-> None]
        ELSE IF ~Truthy(a.ret)
        THEN [exc |-> "Exception", msg |-> "not authenticated", file |-> a.file,
              read |-> TRUE, sent |-> FALSE, verdict |-> a.verdict, open |-> FALSE,
              reported |-> FALSE,
              bearer |-> None]
        ELSE IF ~Truthy(key)
        THEN [exc |-> "ValueError", msg |-> "Valid key is required for querying logs.",
              file |-> a.file, read |-> TRUE, sent |-> FALSE, verdict |-> a.verdict,
              open |-> FALSE, reported |-> FALSE,
              bearer |-> None]
        ELSE [exc |-> "", msg |-> "", file |-> a.file, read |-> TRUE, sent |-> TRUE,
              verdict |-> a.verdict, open |-> connects, reported |-> ~connects,
              bearer |-> a.ret]

\* The loop body of get_logs with the else branch ending the stream.
log_frame_HeartbeatEnds(frame) ==
    CASE frame.kind \in {"closed", "blank", "undecodable"} ->
            [shown |-> FALSE, line |-> None, then |-> "disconnect"]
      [] frame.kind \in {"empty", "nonobject"} ->
            [shown |-> FALSE, line |-> None, then |-> "disconnect"]
      [] frame.kind = "row" /\ ~IsStr(log_line(frame)) ->
            [shown |-> FALSE, line |-> None, then |-> "disconnect"]
      [] OTHER -> [shown |-> TRUE, line |-> log_line(frame), then |-> "next"]

\* One pass of the loop of get_logs (lines 785-795) on a frame: the row is
\* printed or not (shown) and the line printed, and the loop goes on to the next pass or ends in the
\* except block of the function (disconnect). ws.recv() raises on a closed
\* connection, json.loads on a text that is no JSON (an empty text included),
\* " | ".join on a value that is no str.
log_frame(frame) ==
    CASE frame.kind \in {"closed", "blank", "undecodable"} ->
            [shown |-> FALSE, line |-> None, then |-> "disconnect"]
      [] frame.kind \in {"empty", "nonobject"} ->
            [shown |-> FALSE, line |-> None, then |-> "next"]
      [] frame.kind = "row" /\ ~IsStr(log_line(frame)) ->
            [shown |-> FALSE, line |-> None, then |-> "disconnect"]
      [] OTHER -> [shown |-> TRUE, line |-> log_line(frame), then |-> "next"]

-----------------------------------------------------------------------------
(* process_envs *)

\* The characters of [a-zA-Z_] and of [a-zA-Z0-9_].
EnvNameStartAlphabet == "abcdefghijklmnopqrstuvwxyzABCDEFGHIJKLMNOPQRSTUVWXYZ_"
EnvNameStart == {SubSeq(EnvNameStartAlphabet, i, i) : i \in 1..Len(EnvNameStartAlphabet)}
EnvNameChars == EnvNameStart \cup {SubSeq("0123456789", i, i) : i \in 1..10}

\* env.split("=", maxsplit=1)
Split1(env) ==
    LET i == Find(env, "=", 1)
    IN  IF i = 0 THEN <<env>>
        ELSE <<SubSeq(env, 1, i - 1), SubSeq(env, i + 1, Len(env))>>

\* re.match(r"^[a-zA-Z_][a-zA-Z0-9_]*$", name) is not None. In a Python
\* pattern '$' matches at the end of the string and also just before a
\* newline that ends the string.
EnvNameMatches_EndOnly(name) ==
    /\ Len(name) >= 1
    /\ SubSeq(name, 1, 1) \in EnvNameStart
    /\ AllIn(name, EnvNameChars)

EnvNameMatches(name) ==
    LET n == Len(name)
        body == IF n >= 1 /\ SubSeq(name, n, n) = "\n" THEN SubSeq(name, 1, n - 1)
                ELSE name
    IN  /\ Len(body) >= 1
        /\ SubSeq(body, 1, 1) \in EnvNameStart
        /\ AllIn(body, EnvNameChars)

\* processed_envs[k] = v on a dict held as its set of <<key, value>> items.
DictSet(d, k, v) == {p \in d : p[1] # k} \cup {<<k, v>>}

RECURSIVE process_envs_from(_, _, _)
\* The loop of process_envs from entry i on, with processed_envs = d.
process_envs_from(envs, i, d) ==
    IF i > Len(envs) THEN [exc |-> "", msg |-> "", ret |-> d]
    ELSE LET kv == Split1(envs[i])
         IN  IF Len(kv) # 2
             THEN [exc |-> "SystemExit",
                   msg |-> "Invalid env format: should be <key>=<value>.", ret |-> {}]
             ELSE IF ~EnvNameMatches(kv[1])
             THEN [exc |-> "SystemExit", msg |-> "Invalid env name", ret |-> {}]
             ELSE process_envs_from(envs, i + 1, DictSet(d, kv[1], kv[2]))

\* process_envs(envs): the exception raised, or the dict returned.
process_envs(envs) == process_envs_from(envs, 1, {})

\* The --env arguments tried: well-formed ones (a plain value, an empty one, one
\* holding '=', a name already used), one with no '=', names the pattern is
\* meant to refuse (a leading digit, none at all, a dash, a newline at the end).
MaxEnvs == 2
EnvEntries == {"k1=v1", "k2=v2", "k1=", "_k=a=b", "bad", "1x=v", "=v", "k-1=v", "k1\n=v"}
EnvLists == UNION {[1..n -> EnvEntries] : n \in 0..MaxEnvs}

-----------------------------------------------------------------------------
(* State *)

NoLogin == [existing |-> FALSE, token |-> None, code |-> None, tries |-> 0,
            request_id |-> None]
NoObs == [deletes |-> 0, validates |-> 0, denials |-> 0, opens |-> 0, fetches |-> 0,
          sleeps |-> 0, waits |-> 0, ids |-> {},
          exit |-> "none"]
NoPrep == [op |-> "none", status |-> 0,
           body |-> [json |-> FALSE, dict |-> FALSE, detail |-> Missing, values |-> NoValues],
           exc |-> "", msg |-> "", obj |-> NoResponse, sent |-> FALSE, raised |-> ""]
NoHttp == [exc |-> "none", status |-> 0]
\* The running command: the frames received from the milestone stream (frames),
\* the calls of ws.recv (recvs), the events printed (shown), the connections
\* opened to the log server (connects), whether the disconnection was
\* reported to the user (reported).
\* The phases of the deploy command entered so far (phases) and whether its first
\* prepare call failed; the locals of key resolution: the branch taken, the
\* members populated in the response it was given, the key suggested, key_candidate, api_url and deploy_url (triple), the app
\* prefix of the first response, the last answer of console.ask (input) and
\* what the user did there (entry), the prompts shown, whether a name was
\* typed at one of them, the prepare requests and upload requests sent.
NoDep == [recvs |-> 0, frames |-> 0, shown |-> 0, connects |-> 0, reported |-> FALSE,
          phases |-> <<>>, prepare_failed |-> FALSE, interactive |-> FALSE,
          branch |-> "none", populated |-> {}, suggested |-> "", triple |-> NoTriple,
          app_prefix |-> None, input |-> None, entry |-> NoEntry,
          prompts |-> 0, typed |-> FALSE, returned |-> FALSE,
          prepares |-> 0, uploads |-> 0]

\* The record of a step: the operation (op) and the file before it (pre); the
\* answer of the transport to the validation request (http, NoHttp when none
\* was sent), what validate_token raised (vexc) and how the caller read it
\* (verdict); what get_existing_access_token raised (lexc, lmsg); the exception
\* that left the operation (exc); the token and code it returned (ret, code);
\* the token and code it was given (token, arg); what the file system did (io);
\* the deployment key it was given (key), the message of the exception (msg),
\* whether it read the credential (read), sent its own request (sent) and
\* returned a result (returned); the frame it received (frame); the --env
\* arguments it was given (envs) and the dict it made of them (out); the
\* arguments deploy was given (params), whether it opened the artifacts, or
\* the browser the logout page (opened), and the answer to its upload request (uresp); the arguments of a
\* SiteStatus construction (site) and the answer to a status request (sresp);
\* how a pass of a stream loop ended (then); the frame of the log stream it
\* received (row); the line it printed (line); the token it sent with its
\* own request (bearer).
Step(op, pre) ==
    [op |-> op, pre |-> pre, http |-> NoHttp, vexc |-> "", verdict |-> "none",
     lexc |-> "", lmsg |-> "", exc |-> "", ret |-> None, code |-> None,
     token |-> None, arg |-> None, io |-> "ok",
     key |-> None, msg |-> "", read |-> FALSE, sent |-> FALSE, returned |-> FALSE,
     frame |-> NoFrame, envs |-> <<>>, out |-> {}, params |-> NoParams,
     opened |-> FALSE, uresp |-> NoUpload, site |-> NoSite, sresp |-> NoStatus,
     then |-> "none", row |-> NoLogFrame, line |-> None, bearer |-> None]

Init ==
    /\ file \in Files
    /\ pc = "idle"
    /\ login = NoLogin
    /\ obs = NoObs
    /\ last = Step("start", file)
    /\ prep = NoPrep
    /\ dep = NoDep

\* The answer to the request of fetch_token: the transport raises, or the
\* server answers with a status and a body; the body is JSON or not, an object
\* or not, with its access_token and code members (Missing when not there).
NoFetchBody == [json |-> FALSE, dict |-> FALSE, access_token |-> Missing, code |-> Missing]
FetchResponses ==
    {[exc |-> "TimeoutException", status |-> 0, body |-> NoFetchBody],
     [exc |-> "", status |-> 404, body |-> NoFetchBody],
     [exc |-> "", status |-> 200, body |-> NoFetchBody],
     [exc |-> "", status |-> 200, body |-> [NoFetchBody EXCEPT !.json = TRUE]],
     [exc |-> "", status |-> 200,
      body |-> [json |-> TRUE, dict |-> TRUE, access_token |-> Missing, code |-> "c1"]]}
        \cup {[exc |-> "", status |-> 200,
                body |-> [json |-> TRUE, dict |-> TRUE, access_token |-> t, code |-> c]] :
                t \in Tokens \cup {""}, c \in Codes \cup {Missing}}

\* The body of the try block of fetch_token (lines 531-536): the exception it
\* raises, or the pair it returns.
fetch_try(fresp) ==
    IF fresp.exc # "" THEN [exc |-> fresp.exc, token |-> None, code |-> None]
    ELSE IF RaisesForStatus(fresp.status)
    THEN [exc |-> "HTTPStatusError", token |-> None, code |-> None]
    ELSE IF ~fresp.body.json THEN [exc |-> "JSONDecodeError", token |-> None, code |-> None]
    ELSE IF ~fresp.body.dict THEN [exc |-> "TypeError", token |-> None, code |-> None]
    ELSE IF fresp.body.access_token = Missing
    THEN [exc |-> "KeyError", token |-> None, code |-> None]
    ELSE [exc |-> "", token |-> fresp.body.access_token,
          code |-> DictGet(fresp.body.code, "")]

\* fetch_token(request_id): the exception raised with its message, or the pair
\* (access_token, code) returned.
fetch_token(fresp) ==
    LET t == fetch_try(fresp)
    IN  IF t.exc = "" THEN [exc |-> "", msg |-> "", token |-> t.token, code |-> t.code]
        ELSE [exc |-> "Exception",
              msg |-> IF IsInstance(t.exc, "RequestError") THEN "request timeout"
                      ELSE IF IsInstance(t.exc, "HTTPError") THEN "not found"
                      ELSE "internal errors",
              token |-> None, code |-> None]

\* What fetch_token answers.
FetchOutcomes == {fetch_token(fresp) : fresp \in FetchResponses}

\* uuid.uuid4().hex
RequestIds == {"r1", "r2"}

\* for _ in range(constants.Hosting.WEB_AUTH_RETRIES) in authenticate_on_browser,
\* with no end to the range.
fetch_budget_Unbounded(tries) == TRUE

\* for _ in range(constants.Hosting.WEB_AUTH_RETRIES) in authenticate_on_browser:
\* whether there is another poll after tries polls.
fetch_budget(tries) == tries < WEB_AUTH_RETRIES

-----------------------------------------------------------------------------
(* Commands other than login (one command per process) *)

\* authenticated_token(), as every authenticated operation calls it first.
AuthenticatedToken ==
    /\ pc = "idle"
    /\ \E vresp \in HttpOutcomes :
        \E a \in {authenticated_token(file, vresp)} :
        LET called == a.verdict # "none"
        IN  /\ file' = a.file
            /\ last' = [Step("authenticated_token", file) EXCEPT
                            !.http = IF called THEN vresp ELSE NoHttp,
                            !.vexc = IF called THEN validate_token(vresp).exc ELSE "",
                            !.verdict = a.verdict, !.ret = a.ret, !.exc = a.exc]
            /\ obs' = [NoObs EXCEPT !.validates = IF called THEN 1 ELSE 0,
                                    !.exit = IF a.exc = "" THEN "ok" ELSE "Exit1"]
    /\ prep' = NoPrep
    /\ dep' = NoDep
    /\ pc' = "exited"
    /\ UNCHANGED login

\* prepare_deploy(app_name, key, frontend_hostname)
PrepareDeploy ==
    /\ pc = "idle"
    /\ \E vresp \in HttpOutcomes, presp \in PrepareOutcomes :
        \E r \in {prepare_deploy(file, vresp, presp)} :
        LET called == r.verdict # "none"
        IN  /\ file' = r.file
            /\ last' = [Step("prepare_deploy", file) EXCEPT
                            !.http = IF called THEN vresp ELSE NoHttp,
                            !.vexc = IF called THEN validate_token(vresp).exc ELSE "",
                            !.verdict = r.verdict, !.exc = r.exc, !.msg = r.msg,
                            !.read = TRUE, !.sent = r.sent, !.bearer = r.bearer]
            /\ prep' = [op |-> "prepare_deploy",
                        status |-> IF r.sent THEN presp.status ELSE 0,
                        body |-> IF r.sent THEN presp.body ELSE NoPrep.body,
                        exc |-> r.exc, msg |-> r.msg, obj |-> r.obj, sent |-> r.sent,
                        raised |-> r.raised]
            /\ obs' = [NoObs EXCEPT !.validates = IF called THEN 1 ELSE 0,
                                    !.exit = IF r.exc = "" THEN "ok" ELSE "Exit1"]
    /\ pc' = "exited"
    /\ dep' = NoDep
    /\ UNCHANGED login

\* DeploymentPrepareResponse(...) constructed from given values
Construct ==
    /\ pc = "idle"
    /\ \E v \in RawValues :
        LET r == DeploymentPrepareResponse(v)
        IN  /\ prep' = [op |-> "construct", status |-> 0,
                        body |-> [json |-> TRUE, dict |-> TRUE, detail |-> Missing,
                                  values |-> v],
                        exc |-> r.exc, msg |-> "", obj |-> r.obj, sent |-> FALSE,
                        raised |-> r.exc]
            /\ obs' = [NoObs EXCEPT !.exit = IF r.exc = "" THEN "ok" ELSE "Exit1"]
    /\ last' = Step("construct", file)
    /\ pc' = "exited"
    /\ dep' = NoDep
    /\ UNCHANGED <<file, login>>

\* log_out_on_browser() with the failure of get_existing_access_token passed
\* on to the caller.
log_out_on_browser_NoSuppress(f, opened) ==
    LET g == get_existing_access_token(f)
    IN  IF g.exc # ""
        THEN [exc |-> g.exc, file |-> f, code |-> None, opens |-> 0, got |-> g]
        ELSE [exc |-> IF opened THEN "" ELSE "SystemExit", file |-> f,
              code |-> g.code, opens |-> 1, got |-> g]

\* log_out_on_browser(), opened being the answer of webbrowser.open: the
\* exception raised, the file as the call leaves it, the invitation code put
\* in the URL (None when get_existing_access_token raised), the pages opened,
\* and what get_existing_access_token gave (got).
log_out_on_browser(f, opened) ==
    LET g == get_existing_access_token(f)
        invitation_code == IF g.exc = "" THEN g.code ELSE None
    IN  IF g.exc # "" /\ ~IsInstance(g.exc, "Exception")
        THEN [exc |-> g.exc, file |-> f, code |-> None, opens |-> 0, got |-> g]
        ELSE [exc |-> IF opened THEN "" ELSE "SystemExit", file |-> f,
              code |-> invitation_code, opens |-> 1, got |-> g]

\* log_out_on_browser(): the logout page is opened with the cached invitation
\* code, None when there is no readable credential.
LogOut ==
    /\ pc = "idle"
    /\ \E opened \in BOOLEAN :
        \E r \in {log_out_on_browser(file, opened)} :
            /\ file' = r.file
            /\ last' = [Step("log_out_on_browser", file) EXCEPT
                            !.lexc = r.got.exc, !.lmsg = r.got.msg,
                            !.ret = r.got.token, !.code = r.code,
                            !.exc = r.exc, !.opened = opened]
            /\ obs' = [NoObs EXCEPT !.opens = r.opens,
                                    !.exit = IF r.exc = "" THEN "ok" ELSE r.exc]
    /\ pc' = "exited"
    /\ prep' = NoPrep
    /\ dep' = NoDep
    /\ UNCHANGED login

\* delete_deployment(key)
DeleteDeployment ==
    /\ pc = "idle"
    /\ \E key \in Keys, vresp \in HttpOutcomes, dresp \in HttpOutcomes :
        \E r \in {delete_deployment(file, key, vresp, dresp)} :
        LET called == r.verdict # "none"
        IN  /\ file' = r.file
            /\ last' = [Step("delete_deployment", file) EXCEPT
                            !.http = IF called THEN vresp ELSE NoHttp,
                            !.vexc = IF called THEN validate_token(vresp).exc ELSE "",
                            !.verdict = r.verdict, !.exc = r.exc, !.msg = r.msg,
                            !.key = key, !.read = r.read, !.sent = r.sent, !.bearer = r.bearer]
            /\ obs' = [NoObs EXCEPT !.validates = IF called THEN 1 ELSE 0,
                                    !.exit = IF r.exc = "" THEN "ok" ELSE "Exit1"]
    /\ pc' = "exited"
    /\ prep' = NoPrep
    /\ dep' = NoDep
    /\ UNCHANGED login

\* get_deployment_status(key)
GetDeploymentStatus ==
    /\ pc = "idle"
    /\ \E key \in Keys, vresp \in HttpOutcomes, sresp \in StatusOutcomes :
        \E r \in {get_deployment_status(file, key, vresp, sresp)} :
        LET called == r.verdict # "none"
        IN  /\ file' = r.file
            /\ last' = [Step("get_deployment_status", file) EXCEPT
                            !.http = IF called THEN vresp ELSE NoHttp,
                            !.vexc = IF called THEN validate_token(vresp).exc ELSE "",
                            !.verdict = r.verdict, !.exc = r.exc, !.msg = r.msg,
                            !.key = key, !.read = r.read, !.sent = r.sent, !.bearer = r.bearer,
                            !.returned = r.returned,
                            !.sresp = IF r.sent THEN sresp ELSE NoStatus]
            /\ obs' = [NoObs EXCEPT !.validates = IF called THEN 1 ELSE 0,
                                    !.exit = IF r.exc = "" THEN "ok" ELSE "Exit1"]
    /\ pc' = "exited"
    /\ prep' = NoPrep
    /\ dep' = NoDep
    /\ UNCHANGED login

\* list_deployments(app_name)
ListDeployments ==
    /\ pc = "idle"
    /\ \E vresp \in HttpOutcomes, lresp \in ListOutcomes :
        \E r \in {list_deployments(file, vresp, lresp)} :
        LET called == r.verdict # "none"
        IN  /\ file' = r.file
            /\ last' = [Step("list_deployments", file) EXCEPT
                            !.http = IF called THEN vresp ELSE NoHttp,
                            !.vexc = IF called THEN validate_token(vresp).exc ELSE "",
                            !.verdict = r.verdict, !.exc = r.exc, !.msg = r.msg,
                            !.read = r.read, !.sent = r.sent, !.bearer = r.bearer,
                            !.returned = r.returned]
            /\ obs' = [NoObs EXCEPT !.validates = IF called THEN 1 ELSE 0,
                                    !.exit = IF r.exc = "" THEN "ok" ELSE "Exit1"]
    /\ pc' = "exited"
    /\ prep' = NoPrep
    /\ dep' = NoDep
    /\ UNCHANGED login

\* SiteStatus(frontend_url=..., backend_url=..., reachable=...)
ConstructSiteStatus ==
    /\ pc = "idle"
    /\ \E a \in SiteArgs :
        \E exc \in {SiteStatus(a.frontend_url, a.backend_url, a.reachable)} :
            /\ last' = [Step("SiteStatus", file) EXCEPT
                            !.site = a, !.exc = exc, !.returned = exc = ""]
            /\ obs' = [NoObs EXCEPT !.exit = IF exc = "" THEN "ok" ELSE "Exit1"]
    /\ pc' = "exited"
    /\ prep' = NoPrep
    /\ dep' = NoDep
    /\ UNCHANGED <<file, login>>

\* display_deploy_milestones(key, from_iso_timestamp) up to its loop: it
\* raises, or the connection fails and it returns from its except block, or
\* the stream is open.
DisplayDeployMilestones ==
    /\ pc = "idle"
    /\ \E key \in Keys, vresp \in HttpOutcomes, connects \in BOOLEAN :
        \E r \in {display_deploy_milestones(file, key, vresp, connects)} :
        LET called == r.verdict # "none"
        IN  /\ file' = r.file
            /\ last' = [Step("display_deploy_milestones", file) EXCEPT
                            !.http = IF called THEN vresp ELSE NoHttp,
                            !.vexc = IF called THEN validate_token(vresp).exc ELSE "",
                            !.verdict = r.verdict, !.exc = r.exc, !.msg = r.msg,
                            !.key = key, !.read = r.read, !.sent = r.sent, !.bearer = r.bearer]
            /\ obs' = [NoObs EXCEPT !.validates = IF called THEN 1 ELSE 0,
                                    !.exit = IF r.exc # "" THEN "Exit1"
                                             ELSE IF r.open THEN "none" ELSE "ok"]
            /\ pc' = IF r.open THEN "streaming" ELSE "exited"
    /\ prep' = NoPrep
    /\ dep' = NoDep
    /\ UNCHANGED login

\* One pass of the loop of display_deploy_milestones, and the return that
\* follows the last pass.
MilestoneFrame ==
    /\ pc = "streaming"
    /\ milestone_budget(dep.recvs)
    /\ \E frame \in Frames :
        \E m \in {milestone_frame(frame)} :
        LET over == ~milestone_budget(milestone_pass(dep.recvs, frame))
            goes_on == m.then = "next" /\ ~over
        IN  /\ dep' = [dep EXCEPT !.recvs = milestone_pass(@, frame),
                                  !.frames = IF frame.kind = "closed" THEN @ ELSE @ + 1,
                                  !.shown = IF m.shown THEN @ + 1 ELSE @]
            /\ last' = [Step("milestone_frame", file) EXCEPT
                            !.frame = frame, !.then = m.then, !.line = m.line]
            /\ pc' = IF goes_on THEN "streaming" ELSE "exited"
            /\ obs' = [obs EXCEPT !.exit = IF goes_on THEN "none" ELSE "ok"]
    /\ prep' = NoPrep
    /\ UNCHANGED <<file, login>>

\* get_logs(key, log_type, from_iso_timestamp) up to its loop: it raises, or
\* the connection fails and it returns from its except block, or the stream
\* is open.
GetLogs ==
    /\ pc = "idle"
    /\ \E key \in Keys, vresp \in HttpOutcomes, connects \in BOOLEAN :
        \E r \in {get_logs(file, key, vresp, connects)} :
        LET called == r.verdict # "none"
        IN  /\ file' = r.file
            /\ last' = [Step("get_logs", file) EXCEPT
                            !.http = IF called THEN vresp ELSE NoHttp,
                            !.vexc = IF called THEN validate_token(vresp).exc ELSE "",
                            !.verdict = r.verdict, !.exc = r.exc, !.msg = r.msg,
                            !.key = key, !.read = r.read, !.sent = r.sent, !.bearer = r.bearer]
            /\ obs' = [NoObs EXCEPT !.validates = IF called THEN 1 ELSE 0,
                                    !.exit = IF r.exc # "" THEN "Exit1"
                                             ELSE IF r.open THEN "none" ELSE "ok"]
            /\ dep' = [NoDep EXCEPT !.connects = IF r.sent THEN 1 ELSE 0,
                                    !.reported = r.reported]
            /\ pc' = IF r.open THEN "tailing" ELSE "exited"
    /\ prep' = NoPrep
    /\ UNCHANGED login

\* One pass of the loop of get_logs, and the except block that ends the
\* function when the pass raises.
LogFrame ==
    /\ pc = "tailing"
    /\ dep.recvs < MaxLogFrames
    /\ \E frame \in LogFrames :
        \E m \in {log_frame(frame)} :
            /\ dep' = [dep EXCEPT !.recvs = @ + 1,
                                  !.frames = IF frame.kind = "closed" THEN @ ELSE @ + 1,
                                  !.shown = IF m.shown THEN @ + 1 ELSE @,
                                  !.reported = m.then = "disconnect"]
            /\ last' = [Step("log_frame", file) EXCEPT
                            !.row = frame, !.then = m.then, !.line = m.line]
            /\ pc' = IF m.then = "next" THEN "tailing" ELSE "exited"
            /\ obs' = [obs EXCEPT !.exit = IF m.then = "next" THEN "none" ELSE "ok"]
    /\ prep' = NoPrep
    /\ UNCHANGED <<file, login>>

\* deploy(frontend_file_name, backend_file_name, export_dir, key, app_name,
\* regions, app_prefix, ...)
Deploy ==
    /\ pc = "idle"
    /\ \E p \in DeployParams, vresp \in HttpOutcomes, opens \in BOOLEAN,
          uresp \in UploadOutcomes :
        \E r \in {deploy(file, p.key, p.app_name, p.regions, p.app_prefix, vresp,
                         opens, uresp)} :
        LET called == r.verdict # "none"
        IN  /\ file' = r.file
            /\ last' = [Step("deploy_call", file) EXCEPT
                            !.http = IF called THEN vresp ELSE NoHttp,
                            !.vexc = IF called THEN validate_token(vresp).exc ELSE "",
                            !.verdict = r.verdict, !.exc = r.exc, !.msg = r.msg,
                            !.key = p.key, !.read = r.read, !.sent = r.sent, !.bearer = r.bearer,
                            !.returned = r.returned, !.opened = r.opened,
                            !.params = p,
                            !.uresp = IF r.sent THEN uresp ELSE NoUpload]
            /\ obs' = [NoObs EXCEPT !.validates = IF called THEN 1 ELSE 0,
                                    !.exit = IF r.exc = "" THEN "ok" ELSE "Exit1"]
    /\ pc' = "exited"
    /\ prep' = NoPrep
    /\ dep' = NoDep
    /\ UNCHANGED login

\* process_envs(envs), as the deploy command calls it on its --env arguments.
ProcessEnvs ==
    /\ pc = "idle"
    /\ \E envs \in EnvLists :
        \E r \in {process_envs(envs)} :
            /\ last' = [Step("process_envs", file) EXCEPT
                            !.exc = r.exc, !.msg = r.msg, !.envs = envs, !.out = r.ret,
                            !.returned = r.exc = ""]
            /\ obs' = [NoObs EXCEPT !.exit = IF r.exc = "" THEN "ok" ELSE "SystemExit"]
    /\ pc' = "exited"
    /\ prep' = NoPrep
    /\ dep' = NoDep
    /\ UNCHANGED <<file, login>>

-----------------------------------------------------------------------------
(* The deploy command *)

\* deploy: the prepare phase, prepare_deploy(app_name, ...).
DeployPrepare ==
    /\ pc = "idle"
    /\ \E vresp \in HttpOutcomes, presp \in PrepareOutcomes :
        \E r \in {prepare_deploy(file, vresp, presp)} :
        LET called == r.verdict # "none"
            next == deploy_after_prepare(r.exc)
        IN  /\ file' = r.file
            /\ last' = [Step("deploy", file) EXCEPT
                            !.http = IF called THEN vresp ELSE NoHttp,
                            !.vexc = IF called THEN validate_token(vresp).exc ELSE "",
                            !.verdict = r.verdict, !.exc = r.exc, !.msg = r.msg,
                            !.read = TRUE, !.sent = r.sent, !.bearer = r.bearer]
            /\ prep' = [op |-> "prepare_deploy",
                        status |-> IF r.sent THEN presp.status ELSE 0,
                        body |-> IF r.sent THEN presp.body ELSE NoPrep.body,
                        exc |-> r.exc, msg |-> r.msg, obj |-> r.obj, sent |-> r.sent,
                        raised |-> r.raised]
            /\ obs' = [NoObs EXCEPT !.validates = IF called THEN 1 ELSE 0,
                                    !.exit = IF next = "exited" THEN "Exit1" ELSE "none"]
            /\ dep' = [NoDep EXCEPT !.phases = <<"prepare">>,
                                    !.prepare_failed = r.exc # "",
                                    !.app_prefix = r.obj.app_prefix,
                                    !.prepares = IF r.sent THEN 1 ELSE 0]
            /\ pc' = next
    /\ UNCHANGED login

\* deploy --no-interactive: the key and urls are taken from the response.
NonInteractiveKeyResolution ==
    /\ pc = "resolving"
    /\ \E k \in {interactive_get_deployment_key_from_user_input(prep.obj)} :
           dep' = [dep EXCEPT !.phases = Append(@, "resolve"), !.interactive = FALSE,
                              !.branch = k.branch, !.populated = Populated(prep.obj), !.triple = k.triple,
                              !.returned = TRUE]
    /\ last' = Step("non_interactive_key", file)
    /\ pc' = "uploading"
    /\ prep' = NoPrep
    /\ UNCHANGED <<file, login, obs>>

\* interactive_get_deployment_key_from_user_input(pre_deploy_response, ...) up
\* to its first prompt, or to its return when it does not prompt.
InteractiveKeyResolution ==
    /\ pc = "resolving"
    /\ \E k \in {interactive_get_deployment_key_from_user_input(prep.obj)} :
       LET asks == k.branch = "suggestion"
       IN  /\ dep' = [dep EXCEPT !.phases = Append(@, "resolve"), !.interactive = TRUE,
                                 !.branch = k.branch, !.populated = Populated(prep.obj), !.triple = k.triple,
                                 !.suggested = IF asks THEN k.triple.key ELSE "",
                                 !.returned = ~asks]
           /\ pc' = IF asks THEN "asking" ELSE "uploading"
    /\ last' = Step("interactive_get_deployment_key_from_user_input", file)
    /\ prep' = NoPrep
    /\ UNCHANGED <<file, login, obs>>

\* The prompt of the loop: console.ask returns, and with nothing entered the
\* function returns what it holds.
AskName ==
    /\ pc = "asking"
    /\ dep.prompts < MaxPrompts
    /\ \E entry \in Entries :
        \E key_input \in {console_ask(entry, dep.triple.key)} :
             /\ dep' = [dep EXCEPT !.prompts = @ + 1, !.input = key_input,
                                  !.entry = entry,
                                  !.typed = @ \/ entry.kind # "default",
                                  !.returned = ~Truthy(key_input)]
            /\ last' = [Step("console_ask", file) EXCEPT !.key = key_input]
            /\ pc' = IF Truthy(key_input) THEN "confirming" ELSE "uploading"
    /\ prep' = NoPrep
    /\ UNCHANGED <<file, login, obs>>

\* The body of the loop for the name entered: prepare_deploy with that name
\* as key, then the loop is left or the user is asked again.
ConfirmName ==
    /\ pc = "confirming"
    /\ \E vresp \in HttpOutcomes, presp \in ConfirmOutcomes :
        \E r \in {prepare_deploy(file, vresp, presp)} :
        \E n \in {name_of_deployment(dep.input, dep.triple, r)} :
        LET called == r.verdict # "none"
        IN  /\ file' = r.file
            /\ last' = [Step("name_of_deployment", file) EXCEPT
                            !.http = IF called THEN vresp ELSE NoHttp,
                            !.vexc = IF called THEN validate_token(vresp).exc ELSE "",
                            !.verdict = r.verdict, !.exc = r.exc, !.msg = r.msg,
                            !.key = dep.input, !.read = TRUE, !.sent = r.sent, !.bearer = r.bearer]
            /\ prep' = [op |-> "prepare_deploy",
                        status |-> IF r.sent THEN presp.status ELSE 0,
                        body |-> IF r.sent THEN presp.body ELSE NoPrep.body,
                        exc |-> r.exc, msg |-> r.msg, obj |-> r.obj, sent |-> r.sent,
                        raised |-> r.raised]
            /\ obs' = [obs EXCEPT !.validates = IF called THEN @ + 1 ELSE @,
                                  !.exit = IF n.then = "raise" THEN "Exit1" ELSE "none"]
            /\ dep' = [dep EXCEPT !.triple = n.triple,
                                  !.prepares = IF r.sent THEN @ + 1 ELSE @,
                                  !.returned = n.then = "break"]
            /\ pc' = CASE n.then = "break" -> "uploading"
                        [] n.then = "ask" -> "asking"
                        [] OTHER -> "exited"
    /\ UNCHANGED login

\* deploy: the upload phase, hosting.deploy(...) with the key resolved.
DeployUpload ==
    /\ pc = "uploading"
    /\ \E vresp \in HttpOutcomes, opens \in BOOLEAN, uresp \in UploadOutcomes :
        \E r \in {deploy(file, dep.triple.key, "app", <<"sjc">>, dep.app_prefix, vresp,
                           opens, uresp)} :
        LET called == r.verdict # "none"
        IN  /\ file' = r.file
            /\ last' = [Step("deploy_upload", file) EXCEPT
                            !.http = IF called THEN vresp ELSE NoHttp,
                            !.vexc = IF called THEN validate_token(vresp).exc ELSE "",
                            !.verdict = r.verdict, !.exc = r.exc, !.msg = r.msg,
                            !.key = dep.triple.key, !.read = r.read, !.sent = r.sent, !.bearer = r.bearer,
                            !.returned = r.returned, !.opened = r.opened,
                            !.params = [key |-> dep.triple.key, app_name |-> "app",
                                        regions |-> <<"sjc">>,
                                        app_prefix |-> dep.app_prefix],
                            !.uresp = IF r.sent THEN uresp ELSE NoUpload]
            /\ obs' = [obs EXCEPT !.validates = IF called THEN @ + 1 ELSE @,
                                  !.exit = IF r.exc # "" THEN "Exit1" ELSE "none"]
            /\ dep' = [dep EXCEPT !.phases = Append(@, "upload"),
                                  !.uploads = IF r.sent THEN @ + 1 ELSE @]
            /\ pc' = IF r.exc # "" THEN "exited" ELSE "settling"
    /\ prep' = NoPrep
    /\ UNCHANGED login

\* deploy: the settle phase, wait_for_server_to_pick_up_request().
DeploySettle ==
    /\ pc = "settling"
    /\ dep' = [dep EXCEPT !.phases = Append(@, "settle")]
    /\ last' = Step("wait_for_server_to_pick_up_request", file)
    /\ pc' = "observing"
    /\ prep' = NoPrep
    /\ UNCHANGED <<file, login, obs>>

\* deploy: the observe phase, display_deploy_milestones(key, ...) up to its
\* loop; a failure to observe does not fail the command.
DeployObserve ==
    /\ pc = "observing"
    /\ \E vresp \in HttpOutcomes, connects \in BOOLEAN :
        \E r \in {display_deploy_milestones(file, dep.triple.key, vresp, connects)} :
        LET called == r.verdict # "none"
        IN  /\ file' = r.file
            /\ last' = [Step("deploy_observe", file) EXCEPT
                            !.http = IF called THEN vresp ELSE NoHttp,
                            !.vexc = IF called THEN validate_token(vresp).exc ELSE "",
                            !.verdict = r.verdict, !.exc = r.exc, !.msg = r.msg,
                            !.key = dep.triple.key, !.read = r.read, !.sent = r.sent, !.bearer = r.bearer]
            /\ obs' = [obs EXCEPT !.validates = IF called THEN @ + 1 ELSE @,
                                  !.exit = IF r.open THEN "none" ELSE "ok"]
            /\ pc' = IF r.open THEN "streaming" ELSE "exited"
    /\ dep' = [dep EXCEPT !.phases = Append(@, "observe")]
    /\ prep' = NoPrep
    /\ UNCHANGED login

-----------------------------------------------------------------------------
(* The login command *)

\* login: the cached credential is loaded; with one, it is validated; without
\* one, authenticate_on_browser opens the browser (lines 830-838).
LoginStart ==
    /\ pc = "idle"
    /\ LET g == get_existing_access_token(file)
       IN  IF g.exc = ""
           THEN /\ login' = [existing |-> TRUE, token |-> g.token, code |-> g.code,
                             tries |-> 0, request_id |-> None]
                /\ obs' = NoObs
                /\ pc' = "validating"
                /\ last' = [Step("login", file) EXCEPT !.ret = g.token, !.code = g.code]
           ELSE \E opened \in BOOLEAN, request_id \in RequestIds :
                /\ login' = [NoLogin EXCEPT !.request_id = request_id]
                /\ obs' = [NoObs EXCEPT !.opens = 1,
                                        !.exit = IF opened THEN "none" ELSE "SystemExit"]
                /\ pc' = IF opened THEN "polling" ELSE "exited"
                /\ last' = [Step("login", file) EXCEPT
                                !.lexc = g.exc, !.lmsg = g.msg,
                                !.ret = g.token, !.code = g.code,
                                !.key = request_id,
                                !.exc = IF opened THEN "" ELSE "SystemExit"]
    /\ prep' = NoPrep
    /\ dep' = NoDep
    /\ UNCHANGED file

\* One iteration of the polling loop of authenticate_on_browser (lines 840-845),
\* with the return that follows the first token fetched or the last failure.
FetchPoll ==
    /\ pc = "polling"
    /\ fetch_budget(login.tries)
    /\ \E fresp \in FetchResponses :
        \E r \in {fetch_token(fresp)} :
        LET over == ~fetch_budget(login.tries + 1)
        IN  /\ login' = IF r.exc # ""
                        THEN [login EXCEPT !.tries = @ + 1]
                        ELSE [login EXCEPT !.tries = @ + 1, !.token = r.token,
                                           !.code = r.code]
            /\ pc' = IF r.exc = "" \/ over THEN "fetched" ELSE "polling"
            /\ last' = [Step("fetch_token", file) EXCEPT
                            !.exc = r.exc, !.msg = r.msg, !.ret = r.token,
                            !.code = r.code, !.key = login.request_id,
                            !.then = IF r.exc = "" THEN "return"
                                     ELSE IF over THEN "return_none" ELSE "retry"]
            /\ obs' = [obs EXCEPT !.fetches = @ + 1,
                                  !.waits = IF r.exc = "" THEN @ ELSE @ + 1,
                                  !.ids = @ \cup {login.request_id}]
    /\ prep' = NoPrep
    /\ dep' = NoDep
    /\ UNCHANGED file

\* login after authenticate_on_browser returned: without a token the command
\* fails, with one the credential is saved and then validated.
LoginSave ==
    /\ pc = "fetched"
    /\ IF ~Truthy(login.token)
       THEN /\ pc' = "exited"
            /\ obs' = [obs EXCEPT !.exit = "Exit1"]
            /\ last' = Step("login_failed", file)
            /\ UNCHANGED <<file, login>>
       ELSE \E io \in IOOutcomes :
            LET s == save_token_to_config(file, login.token, login.code, io)
            IN  /\ file' = s.file
                /\ last' = [Step("save_token_to_config", file) EXCEPT
                                !.token = login.token, !.arg = login.code,
                                !.io = io, !.exc = s.exc]
                /\ pc' = IF s.exc = "" THEN "validating" ELSE "exited"
                /\ obs' = [obs EXCEPT !.exit = IF s.exc = "" THEN "none" ELSE "Exit1"]
                /\ login' = [login EXCEPT !.tries = 0]
    /\ prep' = NoPrep
    /\ dep' = NoDep

\* One iteration of the loop of validate_token_with_retries(access_token), and
\* the command's end when the function returns or raises.
ValidateAttempt ==
    /\ pc = "validating"
    /\ validate_budget(login.tries)
    /\ \E vresp \in HttpOutcomes, io \in {"ok", "open_fails"} :
        LET k == validate_attempt(vresp)
            v == validate_token(vresp)
            over == ~validate_budget(login.tries + 1)
        IN  /\ last' = [Step("validate_token_with_retries", file) EXCEPT
                            !.http = vresp, !.vexc = v.exc, !.verdict = Verdict(v),
                            !.token = login.token,
                            !.then = IF k = "retry" /\ over THEN "return_false" ELSE k,
                            !.io = IF k = "system_exit" THEN io ELSE "ok",
                            !.exc = IF k = "system_exit" THEN "SystemExit" ELSE ""]
            /\ login' = [login EXCEPT !.tries = @ + 1]
            /\ CASE k = "return_true" ->
                    /\ obs' = [obs EXCEPT !.validates = @ + 1, !.exit = "ok"]
                    /\ pc' = "exited"
                    /\ UNCHANGED file
                 [] k = "system_exit" ->
                    /\ obs' = [obs EXCEPT !.validates = @ + 1, !.deletes = @ + 1,
                                          !.denials = @ + 1, !.exit = "SystemExit"]
                    /\ pc' = "exited"
                    /\ file' = delete_token_from_config(file, io)
                 [] OTHER ->
                    /\ obs' = [obs EXCEPT !.validates = @ + 1,
                                          !.sleeps = @ + 1,
                                          !.denials = IF Verdict(v) = "denied"
                                                      THEN @ + 1 ELSE @,
                                          !.exit = IF over THEN "Exit1" ELSE "none"]
                    /\ pc' = IF over THEN "exited" ELSE "validating"
                    /\ UNCHANGED file
    /\ prep' = NoPrep
    /\ dep' = NoDep

\* The process has ended; the next command runs in a new one.
Invoke ==
    /\ pc = "exited"
    /\ pc' = "idle"
    /\ login' = NoLogin
    /\ obs' = NoObs
    /\ last' = Step("invoke", file)
    /\ prep' = NoPrep
    /\ dep' = NoDep
    /\ UNCHANGED file

Next ==
    \/ AuthenticatedToken
    \/ PrepareDeploy
    \/ Construct
    \/ LogOut
    \/ DeleteDeployment
    \/ GetDeploymentStatus
    \/ ListDeployments
    \/ ConstructSiteStatus
    \/ DisplayDeployMilestones
    \/ MilestoneFrame
    \/ GetLogs
    \/ LogFrame
    \/ ProcessEnvs
    \/ Deploy
    \/ DeployPrepare
    \/ NonInteractiveKeyResolution
    \/ InteractiveKeyResolution
    \/ AskName
    \/ ConfirmName
    \/ DeployUpload
    \/ DeploySettle
    \/ DeployObserve
    \/ LoginStart
    \/ FetchPoll
    \/ LoginSave
    \/ ValidateAttempt
    \/ Invoke

Spec == Init /\ [][Next]_vars

-----------------------------------------------------------------------------
(* Properties *)

ValidationOps == {"authenticated_token", "prepare_deploy", "validate_token_with_retries"}

\* A file from which get_existing_access_token can take a token.
HasToken(f) == f.kind = "object" /\ Truthy(f.token)

\* C1: a step of a validation path (authenticated_token, alone or at the start
\* of prepare_deploy, or validate_token_with_retries) changes the credential
\* file only when validate_token answered access denied in that step, and
\* leaves it as it was when validate_token failed with a transient error.
C1_RecordKeptUnlessDenied ==
    [][last'.op \in ValidationOps =>
        /\ (file' # file => last'.verdict = "denied")
        /\ (last'.verdict = "transient" => file' = file)]_vars

C1_Witness ==
    /\ last.op = "authenticated_token"
    /\ last.verdict = "transient"
    /\ HasToken(last.pre)

\* C2 as stated: when the cached credential is rejected with access denied, the
\* stored credential is deleted and the login flow goes on to browser
\* authentication instead of ending.
C2_Original ==
    [][(pc = "validating" /\ login.existing
            /\ last'.op = "validate_token_with_retries" /\ last'.verdict = "denied") =>
        /\ get_existing_access_token(file').exc # ""
        /\ pc' \in {"polling", "fetched"}]_vars

\* C2 amended: when the cached credential is rejected with access denied during
\* login, delete_token_from_config is run (no token can be loaded afterwards,
\* unless the file could not be opened for writing) and the command ends with
\* SystemExit; the browser is never opened in that process. A rejection inside
\* authenticated_token ends with None and no browser either.
C2_DeniedCachedCredentialEndsLogin ==
    [][/\ (pc = "validating" /\ login.existing
            /\ last'.op = "validate_token_with_retries" /\ last'.verdict = "denied") =>
            /\ obs'.deletes = 1
            /\ last'.io = "ok" => get_existing_access_token(file').exc # ""
            /\ pc' = "exited"
            /\ obs'.exit = "SystemExit"
            /\ obs'.opens = 0 /\ obs'.fetches = 0
       /\ (last'.op = "authenticated_token" /\ last'.verdict = "denied") =>
            /\ last'.ret = None
            /\ pc' = "exited"
            /\ obs'.opens = 0 /\ obs'.fetches = 0]_vars

C2_Witness ==
    /\ last.op = "validate_token_with_retries"
    /\ last.verdict = "denied"
    /\ login.existing
    /\ HasToken(last.pre)
    /\ ~HasToken(file)

\* C3: in validate_token_with_retries the first access-denied answer is the
\* last validation attempt: delete_token_from_config has then run exactly once
\* and the process has ended with SystemExit; without such an answer
\* delete_token_from_config has not run.
C3_AccessDeniedIsFatal ==
    /\ obs.denials <= 1
    /\ obs.denials = 0 => obs.deletes = 0
    /\ obs.denials = 1 =>
        /\ last.op = "validate_token_with_retries"
        /\ last.verdict = "denied"
        /\ obs.deletes = 1
        /\ pc = "exited"
        /\ obs.exit = "SystemExit"

C3_Witness ==
    /\ obs.denials = 1
    /\ obs.validates = 2
    /\ pc = "exited"

\* C4: authenticated_token returns the stored token exactly when
\* get_existing_access_token succeeds on the file and validate_token succeeds
\* for that token, and None otherwise; no exception leaves it and neither the
\* browser nor fetch_token is used.
C4_AuthenticatedTokenResult ==
    last.op = "authenticated_token" =>
        LET g == get_existing_access_token(last.pre)
            valid == g.exc = "" /\ last.http # NoHttp /\ validate_token(last.http).exc = ""
        IN  /\ last.ret = IF valid THEN last.pre.token ELSE None
            /\ last.exc = ""
            /\ obs.opens = 0
            /\ obs.fetches = 0
            /\ pc = "exited"

C4_Witness ==
    /\ last.op = "authenticated_token"
    /\ last.ret \in Tokens
    /\ last.http.status = 200

\* C5: validate_token returns normally only for a successful response, raises
\* ValueError exactly when the server answered 403, and raises an exception
\* that is no ValueError for a timeout, a network failure and any other error
\* status.
C5_ValidateTokenErrors ==
    last.http # NoHttp =>
        LET answered == last.http.exc = ""
            denied == answered /\ last.http.status = FORBIDDEN
            success == answered /\ last.http.status \in 200..299
        IN  /\ last.vexc = "" <=> success
            /\ IsInstance(last.vexc, "ValueError") <=> denied
            /\ (~success /\ ~denied) =>
                    /\ last.vexc = "Exception"
                    /\ last.verdict = "transient"
            /\ denied => last.verdict = "denied"

C5_Witness ==
    /\ last.op = "validate_token_with_retries"
    /\ last.http.exc = ""
    /\ last.http.status = FORBIDDEN
    /\ last.vexc = "ValueError"

\* C6: delete_token_from_config removes the access_token member only: an
\* invitation code stored before the call is still stored after it.
C6_DeleteKeepsInvitationCode ==
    [][(last'.op = "validate_token_with_retries" /\ last'.exc = "SystemExit"
            /\ file.kind = "object" /\ file.code \in Codes) =>
        /\ file'.kind = "object"
        /\ file'.code = file.code]_vars

\* A file that holds no credential: absent, malformed, or without a non-empty
\* access_token.
NoCredential(f) ==
    \/ f.kind = "absent"
    \/ f.kind \in {"empty", "garbage", "nonobject"}
    \/ f.kind = "object" /\ f.token \in {Missing, None, ""}

\* C7: get_existing_access_token raises the one error 'no existing login found'
\* when the file is absent, malformed or without a non-empty access_token, and
\* returns the stored (token, code) in every other case.
C7_NoExistingLogin ==
    last.op \in {"login", "log_out_on_browser"} =>
        IF NoCredential(last.pre)
        THEN /\ last.lexc = "Exception"
             /\ last.lmsg = "no existing login found"
        ELSE /\ last.lexc = ""
             /\ last.ret = last.pre.token
             /\ last.code = IF last.pre.code = Missing THEN None ELSE last.pre.code

C7_Witness ==
    /\ last.op = "login"
    /\ last.pre.kind = "object"
    /\ last.pre.token = ""
    /\ last.pre.code \in Codes
    /\ last.lmsg = "no existing login found"

Constructed == prep.op \in {"construct", "prepare_deploy"} /\ prep.exc = ""

\* C9 as stated: a constructed DeploymentPrepareResponse has exactly one of
\* reply, existing (non-empty) and suggestion populated.
C9_Original == Constructed => Cardinality(Populated(prep.obj)) = 1

\* C9 amended: a constructed DeploymentPrepareResponse has at least one of
\* reply, existing (non-empty) and suggestion populated.
C9_AtLeastOnePopulated == Constructed => Cardinality(Populated(prep.obj)) >= 1

C9_Witness ==
    /\ prep.op = "prepare_deploy"
    /\ prep.exc = ""
    /\ Populated(prep.obj) = {"existing", "suggestion"}

\* Values with reply absent, suggestion absent and existing absent or empty.
AllEmpty(v) ==
    /\ v.reply.tag \in {"missing", "null"}
    /\ v.suggestion.tag \in {"missing", "null"}
    /\ v.existing.tag \in {"missing", "null"} \/ v.existing.items = <<>>

\* C10: constructing a DeploymentPrepareResponse with reply absent, suggestion
\* absent and existing absent or empty fails validation; prepare_deploy, given
\* such a body in a successful answer, raises 'internal errors' and returns
\* nothing.
C10_EmptyResponseRejected ==
    /\ (prep.op = "construct" /\ AllEmpty(prep.body.values)) =>
            prep.exc = "ValidationError"
    /\ (prep.op = "prepare_deploy" /\ prep.sent /\ prep.status = 200
            /\ prep.body.dict /\ AllEmpty(prep.body.values)) =>
            /\ prep.exc = "Exception"
            /\ prep.msg = "internal errors"
            /\ prep.obj = NoResponse

C10_Witness ==
    /\ prep.op = "prepare_deploy"
    /\ prep.sent
    /\ prep.status = 200
    /\ prep.body.values.reply = NullInfo
    /\ prep.body.values.suggestion = NullInfo
    /\ prep.body.values.existing = List(<<>>)
    /\ prep.msg = "internal errors"

\* C11: when the credential file holds no usable credential (absent, malformed
\* or with an empty token), prepare_deploy raises 'not authenticated' and sends
\* nothing: no validation request, no prepare request, no token fetch, and no
\* browser is opened.
C11_NotAuthenticatedBeforeAnyCall ==
    (prep.op = "prepare_deploy" /\ NoCredential(last.pre)) =>
        /\ prep.exc = "Exception"
        /\ prep.msg = "not authenticated"
        /\ ~prep.sent
        /\ last.http = NoHttp
        /\ obs.validates = 0
        /\ obs.fetches = 0
        /\ obs.opens = 0
        /\ file = last.pre

C11_Witness ==
    /\ prep.op = "prepare_deploy"
    /\ last.pre.kind = "object"
    /\ last.pre.token = ""
    /\ prep.msg = "not authenticated"

\* The server rejected the prepare request: it answered 403 with a JSON object.
ExplicitRejection == prep.sent /\ prep.status = FORBIDDEN /\ prep.body.json /\ prep.body.dict

\* C12: when the server answers the prepare request with 403 and a JSON object
\* holding a detail, prepare_deploy raises an exception whose message is that
\* detail.
C12_RejectionReasonVerbatim ==
    (prep.op = "prepare_deploy" /\ ExplicitRejection /\ prep.body.detail # Missing) =>
        /\ prep.exc = "Exception"
        /\ prep.msg = prep.body.detail
        /\ prep.obj = NoResponse

C12_Witness ==
    /\ prep.op = "prepare_deploy"
    /\ prep.status = FORBIDDEN
    /\ prep.body.detail = "name taken"
    /\ prep.msg = "name taken"

\* C13: a prepare request that was sent and failed for another reason than the
\* explicit rejection (network error, error status, malformed JSON, schema
\* mismatch) raises the one message 'internal errors'.
C13_OtherFailuresOpaque ==
    (prep.op = "prepare_deploy" /\ prep.sent /\ prep.exc # "" /\ ~ExplicitRejection) =>
        prep.msg = "internal errors"

\* C19: delete_deployment called with an empty key raises ValueError and sends
\* no request at all, neither the delete nor a token validation, whatever the
\* credential file holds.
C19_DeleteEmptyKeyFailsLocally ==
    (last.op = "delete_deployment" /\ ~Truthy(last.key)) =>
        /\ last.exc = "ValueError"
        /\ ~last.sent
        /\ last.http = NoHttp
        /\ obs.validates = 0

\* C20: get_deployment_status and display_deploy_milestones called with an
\* empty key raise ValueError without reading the credential file and without
\* sending any request (no token validation, no status request, no stream
\* connection); the file is left as it was.
C20_EmptyKeyBeforeCredential ==
    (last.op \in {"get_deployment_status", "display_deploy_milestones"}
            /\ ~Truthy(last.key)) =>
        /\ last.exc = "ValueError"
        /\ ~last.read
        /\ ~last.sent
        /\ last.http = NoHttp
        /\ obs.validates = 0
        /\ file = last.pre
        /\ pc = "exited"
        /\ dep.recvs = 0

C20_Witness ==
    /\ last.op = "get_deployment_status"
    /\ last.key = ""
    /\ HasToken(last.pre)
    /\ last.exc = "ValueError"

\* The step is the start of interactive key resolution.
KeyResolutionStarts == last'.op = "interactive_get_deployment_key_from_user_input"

\* C14: given a response with a reply, interactive key resolution returns the
\* reply's key, api_url and deploy_url at once, whatever existing and
\* suggestion hold: the user is never prompted and prepare_deploy is not
\* called again.
C14_ReplyUsedDirectly ==
    [][/\ (KeyResolutionStarts /\ prep.obj.reply.tag = "info") =>
            /\ dep'.branch = "reply"
            /\ dep'.returned
            /\ dep'.triple = Triple(prep.obj.reply)
            /\ dep'.prepares = dep.prepares
            /\ pc' = "uploading"
       /\ (dep'.interactive /\ dep'.branch = "reply") =>
            /\ dep'.prompts = 0
            /\ dep'.prepares = 1
            /\ pc' \notin {"asking", "confirming"}]_vars

C14_Witness ==
    /\ dep.interactive
    /\ dep.branch = "reply"
    /\ dep.populated = {"reply", "existing", "suggestion"}
    /\ dep.returned
    /\ dep.triple = Triple(Info1)

\* The prepare call of the step confirmed the name entered at the prompt.
Confirms ==
    /\ prep'.exc = ""
    /\ prep'.obj.reply.tag = "info"
    /\ prep'.obj.reply.key = dep.input

\* C15: in the suggestion branch every name entered is passed to
\* prepare_deploy as key; the loop is left only when that call returned a reply
\* whose key is the name entered, which is returned with the reply's urls, or
\* when nothing was entered; after a failed or non-confirming call the user is
\* prompted again and key, api_url and deploy_url are as before.
C15_PromptLoop ==
    [][/\ (last'.op = "console_ask" /\ Truthy(dep'.input)) => pc' = "confirming"
       /\ last'.op = "name_of_deployment" =>
            /\ pc = "confirming"
            /\ last'.key = dep.input
            /\ prep'.op = "prepare_deploy"
            /\ IF Confirms
               THEN /\ pc' = "uploading"
                    /\ dep'.returned
                    /\ dep'.triple = Triple(prep'.obj.reply)
                    /\ dep'.triple.key = dep.input
               ELSE /\ pc' = "asking"
                    /\ ~dep'.returned
                    /\ dep'.triple = dep.triple
       /\ (pc \in {"asking", "confirming"} /\ pc' \notin {"asking", "confirming"}) =>
            \/ last'.op = "name_of_deployment" /\ Confirms
            \/ last'.op = "console_ask" /\ ~Truthy(dep'.input) /\ dep'.triple = dep.triple]_vars

C15_Witness ==
    /\ dep.branch = "suggestion"
    /\ dep.prompts = 2
    /\ dep.returned
    /\ dep.suggested = "k2"
    /\ dep.triple = Triple(Info1)
    /\ last.op = "name_of_deployment"

\* C16: when key resolution, given only a suggestion, has returned and the
\* user accepted the default at every prompt, the key returned is the key
\* suggested.
C16_DefaultYieldsSuggestion ==
    (dep.branch = "suggestion" /\ dep.returned /\ dep.prompts >= 1 /\ ~dep.typed) =>
        dep.triple.key = dep.suggested

C16_Witness ==
    /\ dep.branch = "suggestion"
    /\ dep.populated = {"suggestion"}
    /\ dep.returned
    /\ dep.prompts = 2
    /\ ~dep.typed
    /\ dep.triple.key = "k2"

\* C17 as stated: with no reply and a non-empty existing list, interactive key
\* resolution takes the first entry and asks the caller to confirm before it
\* returns it.
C17_Original ==
    (dep.interactive /\ dep.branch = "existing" /\ dep.returned) => dep.prompts >= 1

\* C17 amended: with no reply and a non-empty existing list, interactive key
\* resolution returns the key, api_url and deploy_url of the first entry at
\* once: it announces the overwrite, asks nothing and calls prepare_deploy no
\* further, whatever the suggestion holds.
C17_FirstExistingReused ==
    [][/\ (KeyResolutionStarts /\ prep.obj.reply.tag # "info"
                /\ prep.obj.existing.tag = "list" /\ prep.obj.existing.items # <<>>) =>
            /\ dep'.branch = "existing"
            /\ dep'.returned
            /\ dep'.triple = Triple(prep.obj.existing.items[1])
            /\ dep'.prepares = dep.prepares
            /\ pc' = "uploading"
       /\ (dep'.interactive /\ dep'.branch = "existing") =>
            /\ dep'.prompts = 0
            /\ dep'.prepares = 1
            /\ pc' \notin {"asking", "confirming"}]_vars

C17_Witness ==
    /\ dep.interactive
    /\ dep.branch = "existing"
    /\ dep.populated = {"existing", "suggestion"}
    /\ dep.returned
    /\ dep.triple = Triple(Info2)
    /\ dep.prompts = 0

\* C18: the phases of a deployment attempt are entered in the order prepare,
\* key resolution, upload, settle, observe, none twice and none skipped; an
\* attempt whose prepare call failed ends there with a non-zero exit and sends
\* no upload request, and an upload request is sent only after prepare
\* succeeded and the key was resolved.
C18_PhasesInOrder ==
    /\ Len(dep.phases) <= Len(Phases)
    /\ \A i \in DOMAIN dep.phases : dep.phases[i] = Phases[i]
    /\ dep.prepare_failed =>
        /\ dep.phases = <<"prepare">>
        /\ dep.uploads = 0
        /\ pc = "exited"
        /\ obs.exit = "Exit1"
    /\ dep.uploads > 0 =>
        /\ ~dep.prepare_failed
        /\ dep.uploads = 1
        /\ Len(dep.phases) >= 3
        /\ dep.returned

C18_Witness ==
    /\ dep.prepare_failed
    /\ prep.op = "prepare_deploy"
    /\ prep.sent
    /\ prep.msg = "name taken"
    /\ pc = "exited"
    /\ obs.exit = "Exit1"

-----------------------------------------------------------------------------
(* process_envs *)

\* The name and the value of a KEY=VALUE entry.
EnvName(env) == SubSeq(env, 1, Find(env, "=", 1) - 1)
EnvValue(env) == SubSeq(env, Find(env, "=", 1) + 1, Len(env))

\* An entry holds '=' and the text ahead of the first one is made of a letter
\* or underscore followed by letters, digits and underscores, and nothing else.
WellFormedEnv(env) ==
    /\ Find(env, "=", 1) # 0
    /\ EnvNameMatches_EndOnly(EnvName(env))

\* The dict of a list of well-formed entries: for every name, the value of
\* the last entry that carries it.
ExpectedEnvs(envs) ==
    {<<EnvName(envs[i]), EnvValue(envs[i])>> :
        i \in {j \in 1..Len(envs) :
                \A l \in (j + 1)..Len(envs) : EnvName(envs[l]) # EnvName(envs[j])}}

\* C21: process_envs maps a list of KEY=VALUE strings to the dict key -> value,
\* each entry split at its first '='; as soon as an entry has no '=' or a
\* name that does not match [A-Za-z_][A-Za-z0-9_]* it raises SystemExit, with
\* no partial result and no network call.
C21_ProcessEnvs ==
    last.op = "process_envs" =>
        /\ obs.validates = 0 /\ ~last.sent
        /\ IF \A i \in 1..Len(last.envs) : WellFormedEnv(last.envs[i])
           THEN last.exc = "" /\ last.out = ExpectedEnvs(last.envs)
           ELSE last.exc = "SystemExit" /\ last.out = {} /\ ~last.returned

-----------------------------------------------------------------------------
(* deploy *)

DeployOps == {"deploy_call", "deploy_upload"}

\* The arguments break one of the local rules: the key is not made of one or
\* more characters of [a-zA-Z0-9-], or the app name or the app prefix is empty.
ParamViolation(p) ==
    \/ ~KeyMatches_EndOnly(p.key)
    \/ ~MinLength1(p.app_name)
    \/ ~MinLength1(p.app_prefix)

\* C22: deploy validates its parameters (key matching [a-zA-Z0-9-]+, non-empty
\* app name, regions and app prefix) before any artifact is opened or
\* uploaded: on a violation it fails, no artifact is opened and no upload
\* request is sent.
C22_ValidatedBeforeUpload ==
    last.op \in DeployOps /\ ParamViolation(last.params) =>
        /\ last.exc # ""
        /\ ~last.opened
        /\ ~last.sent

\* The url starts with http:// or https:// and has at least 8 characters.
UrlShaped(u) ==
    /\ u \notin {None, Missing}
    /\ Len(u) >= 8
    /\ SubSeq(u, 1, 7) = "http://" \/ SubSeq(u, 1, 8) = "https://"

\* deploy got past its credential check.
UploadPhase == last.op \in DeployOps /\ last.read /\ last.verdict = "ok"

\* C23: deploy returns a result only if both frontend_url and backend_url of
\* the response start with http:// or https:// and have at least 8
\* characters; every failure after authentication, a response with other
\* urls included, ends in Exception('internal errors') or
\* Exception('request error'), with no result returned.
C23_UploadFailuresNormalized ==
    UploadPhase =>
        /\ last.returned =>
            /\ last.exc = ""
            /\ last.uresp.exc = "" /\ last.uresp.status = 200
            /\ UrlShaped(last.uresp.body.furl)
            /\ UrlShaped(last.uresp.body.burl)
        /\ ~last.returned =>
            /\ last.exc = "Exception"
            /\ last.msg \in {"internal errors", "request error"}

\* A 200 response whose backend url is too short ended in 'internal errors'.
C23_Witness ==
    /\ UploadPhase
    /\ last.sent /\ last.uresp.status = 200 /\ last.uresp.body.keys
    /\ UrlShaped(last.uresp.body.furl)
    /\ ~UrlShaped(last.uresp.body.burl)
    /\ ~last.returned
    /\ last.msg = "internal errors"

-----------------------------------------------------------------------------
(* SiteStatus *)

\* A url was given: the argument is there and is not None.
Present(u) == u \notin {None, Missing}

\* The status request was answered with a JSON body that holds every member
\* the function reads.
StatusAnswered ==
    /\ last.op = "get_deployment_status"
    /\ last.sent
    /\ last.sresp.exc = "" /\ last.sresp.status = 200
    /\ last.sresp.body.json /\ last.sresp.body.keys

\* C24: a SiteStatus is constructed only when at least one of frontend_url and
\* backend_url is present; with neither the construction fails, and
\* get_deployment_status, whose two SiteStatus values get one url each, then
\* fails with 'internal errors' instead of returning a status.
C24_SiteStatusNeedsUrl ==
    /\ last.op = "SiteStatus" =>
        /\ last.returned => Present(last.site.frontend_url) \/ Present(last.site.backend_url)
        /\ ~Present(last.site.frontend_url) /\ ~Present(last.site.backend_url) =>
                last.exc = "ValidationError" /\ ~last.returned
    /\ StatusAnswered
           /\ (~Present(last.sresp.body.furl) \/ ~Present(last.sresp.body.burl)) =>
        /\ ~last.returned
        /\ last.exc = "Exception" /\ last.msg = "internal errors"

\* The server answered a status request with a backend that has no url.
C24_Witness ==
    /\ StatusAnswered
    /\ Present(last.sresp.body.furl) /\ ~Present(last.sresp.body.burl)
    /\ Present(last.sresp.body.reachable)
    /\ ~last.returned

-----------------------------------------------------------------------------
(* The milestone stream *)

\* The frame is an event whose message holds an end-of-deployment phrase,
\* letter case left aside.
EndEvent(frame) ==
    /\ frame.kind = "event"
    /\ \E msg \in END_OF_DEPLOYMENT_MESSAGES : Contains(Lower(frame.message), Lower(msg))

\* C25: in display_deploy_milestones the first event whose message contains,
\* compared case-insensitively, an end-of-deployment phrase ends the loop: the
\* event is printed, the function returns normally, and no further frame is
\* received.
C25_EndOfDeploymentEndsStream ==
    [][/\ last'.op = "milestone_frame" /\ EndEvent(last'.frame) =>
            /\ pc' = "exited" /\ obs'.exit = "ok"
            /\ IsStr(last'.frame.ts) =>
                    last'.then = "return" /\ dep'.shown = dep.shown + 1
       /\ last.op = "milestone_frame" /\ EndEvent(last.frame) =>
            last'.op = "invoke"]_vars

\* The stream ended on an end-of-deployment phrase written with capitals, with
\* passes left.
C25_Witness ==
    /\ last.op = "milestone_frame"
    /\ EndEvent(last.frame) /\ last.frame.message # Lower(last.frame.message)
    /\ last.then = "return"
    /\ dep.recvs < DEPLOYMENT_EVENT_MESSAGES_RETRIES
    /\ pc = "exited" /\ obs.exit = "ok"

\* C26: a milestone stream that never carries an end-of-deployment phrase
\* terminates: display_deploy_milestones receives at most
\* DEPLOYMENT_EVENT_MESSAGES_RETRIES frames and returns after the last one.
C26_StreamBudget ==
    /\ pc = "streaming" => dep.recvs < DEPLOYMENT_EVENT_MESSAGES_RETRIES
    /\ last.op = "milestone_frame" =>
        /\ dep.recvs <= DEPLOYMENT_EVENT_MESSAGES_RETRIES
        /\ dep.recvs = DEPLOYMENT_EVENT_MESSAGES_RETRIES =>
                pc = "exited" /\ obs.exit = "ok"

\* Every pass received an event, none held an end-of-deployment phrase, and
\* the function returned.
C26_Witness ==
    /\ last.op = "milestone_frame"
    /\ dep.recvs = DEPLOYMENT_EVENT_MESSAGES_RETRIES
    /\ dep.shown = DEPLOYMENT_EVENT_MESSAGES_RETRIES
    /\ ~EndEvent(last.frame)
    /\ last.then = "next"
    /\ pc = "exited"

-----------------------------------------------------------------------------
(* The retry loops of login *)

\* C27: validate_token_with_retries makes at most WEB_AUTH_RETRIES validation
\* attempts and sleeps once after each transient failure: it returns True at
\* the first success, goes on after a transient failure while attempts are
\* left, and returns False once WEB_AUTH_RETRIES attempts have failed that way.
C27_ValidationRetriesBounded ==
    /\ login.tries <= WEB_AUTH_RETRIES
    /\ pc = "validating" => login.tries < WEB_AUTH_RETRIES /\ obs.sleeps = login.tries
    /\ last.op = "validate_token_with_retries" =>
        /\ last.then = "return_true" <=> last.vexc = ""
        /\ last.then = "return_true" =>
                pc = "exited" /\ obs.exit = "ok" /\ obs.sleeps = login.tries - 1
        /\ last.verdict = "transient" =>
            /\ obs.sleeps = login.tries
            /\ IF login.tries < WEB_AUTH_RETRIES
               THEN last.then = "retry" /\ pc = "validating"
               ELSE last.then = "return_false" /\ pc = "exited"
        /\ last.then = "return_false" =>
            /\ login.tries = WEB_AUTH_RETRIES
            /\ obs.sleeps = WEB_AUTH_RETRIES

\* Every attempt failed transiently and the function returned False.
C27_Witness ==
    /\ last.op = "validate_token_with_retries"
    /\ last.then = "return_false"
    /\ last.verdict = "transient"
    /\ login.tries = WEB_AUTH_RETRIES
    /\ pc = "exited"

FetchFailures == {"request timeout", "not found", "internal errors"}

\* C28: after the browser was opened, authenticate_on_browser polls
\* fetch_token at most WEB_AUTH_RETRIES times, always with the request
\* identifier it generated, and sleeps after each failed poll; whatever the
\* failure, it polls again while polls are left; it returns the first
\* (token, code) fetched, and (None, None) once WEB_AUTH_RETRIES polls have
\* failed; when the browser cannot be opened it raises SystemExit without
\* polling.
C28_BrowserPollingBounded ==
    /\ obs.fetches <= WEB_AUTH_RETRIES
    /\ obs.ids \subseteq {login.request_id}
    /\ obs.fetches > 0 => obs.opens = 1
    /\ last.op = "login" /\ last.exc = "SystemExit" =>
            obs.fetches = 0 /\ pc = "exited" /\ obs.exit = "SystemExit"
    /\ pc = "polling" => obs.fetches < WEB_AUTH_RETRIES /\ obs.waits = obs.fetches
    /\ last.op = "fetch_token" =>
        /\ last.exc = "" =>
            /\ last.then = "return" /\ pc = "fetched"
            /\ login.token = last.ret /\ login.code = last.code
            /\ obs.waits = obs.fetches - 1
        /\ last.exc # "" =>
            /\ last.msg \in FetchFailures
            /\ obs.waits = obs.fetches
            /\ IF obs.fetches < WEB_AUTH_RETRIES
               THEN last.then = "retry" /\ pc = "polling"
               ELSE /\ last.then = "return_none" /\ pc = "fetched"
                    /\ login.token = None /\ login.code = None

\* A poll that failed with 'not found' was followed by more polls, and the
\* last of them failed too.
C28_Witness ==
    /\ last.op = "fetch_token"
    /\ last.then = "return_none"
    /\ last.msg = "not found"
    /\ obs.fetches = WEB_AUTH_RETRIES
    /\ login.token = None

-----------------------------------------------------------------------------
(* get_logs *)

\* The frame decodes to an empty JSON value or to one that is no object.
Heartbeat(frame) == frame.kind \in {"empty", "nonobject"}

\* C29: in get_logs an empty or non-object frame is a benign heartbeat: it
\* is not rendered, it does not end the stream, nothing is reported or raised,
\* and the consumer goes on to receive the next frame.
C29_HeartbeatSkipped ==
    [][last'.op = "log_frame" /\ Heartbeat(last'.row) =>
            /\ dep'.shown = dep.shown
            /\ last'.then = "next"
            /\ pc' = "tailing"
            /\ ~dep'.reported
            /\ last'.exc = "" /\ obs'.exit = "none"
            /\ dep'.connects = dep.connects]_vars

\* A heartbeat was followed by a row that was printed.
C29_Witness ==
    /\ last.op = "log_frame"
    /\ last.row.kind = "row"
    /\ dep.recvs >= 2
    /\ dep.shown = 1
    /\ dep.frames = dep.recvs
    /\ pc = "tailing"

\* The stream ended: the connection closed, or a frame could not be decoded
\* or rendered.
Disconnection(frame) ==
    \/ frame.kind \in {"closed", "blank", "undecodable"}
    \/ frame.kind = "row" /\ (~frame.strs \/ frame.ts = None)

\* get_logs got past its credential and key checks.
LogsStarted == last.op = "get_logs" /\ last.sent

\* C30: get_logs opens at most one connection per invocation; when the
\* connection cannot be opened or closes, or a frame cannot be decoded, it
\* reports the disconnection and returns normally: it does not connect again,
\* receives nothing more and raises nothing.
C30_NoReconnect ==
    /\ dep.connects <= 1
    /\ LogsStarted => last.exc = ""
    /\ LogsStarted /\ pc = "exited" => dep.reported /\ obs.exit = "ok" /\ dep.recvs = 0
    /\ last.op = "log_frame" =>
        /\ dep.connects = 1
        /\ last.exc = ""
        /\ Disconnection(last.row) <=> pc = "exited"
        /\ pc = "exited" => dep.reported /\ obs.exit = "ok"
        /\ pc # "exited" => pc = "tailing" /\ ~dep.reported

\* The connection closed after a row was printed.
C30_Witness ==
    /\ last.op = "log_frame"
    /\ last.row.kind = "closed"
    /\ dep.shown >= 1
    /\ dep.reported
    /\ pc = "exited" /\ obs.exit = "ok"

-----------------------------------------------------------------------------
(* convert_to_local_time *)

\* The frame carries a timestamp that convert_to_local_time cannot convert.
Unconvertible(ts) == ts # Missing /\ ~fromisoformat(ts)

\* C31: a timestamp that cannot be converted never aborts a stream:
\* convert_to_local_time returns its argument unchanged when the conversion
\* fails, and get_logs and display_deploy_milestones then print the event
\* with the raw value of the server and go on receiving.
C31_BadTimestampKeepsStream ==
    /\ \A ts \in Timestamps : Unconvertible(ts) => convert_to_local_time(ts) = ts
    /\ /\ last.op = "log_frame"
       /\ last.row.kind = "row" /\ last.row.strs
       /\ Unconvertible(last.row.ts)
       => /\ last.line = last.row.ts \o " | " \o LogText
          /\ last.then = "next"
          /\ pc = "tailing" /\ ~dep.reported
    /\ /\ last.op = "milestone_frame"
       /\ last.frame.kind = "event"
       /\ Unconvertible(last.frame.ts)
       => /\ last.line = last.frame.ts \o " | " \o last.frame.message
          /\ last.then = IF EndEvent(last.frame) THEN "return" ELSE "next"

-----------------------------------------------------------------------------
(* display_deploy_milestones: failures of the observation *)

\* display_deploy_milestones got past its key and credential checks.
MilestonesStarted ==
    last.op \in {"display_deploy_milestones", "deploy_observe"} /\ last.sent

\* The frame ends the pass with an exception: the connection closed, the text
\* is no JSON, the event lacks a member or cannot be rendered.
ObservationFailure(frame) ==
    \/ frame.kind \in {"closed", "undecodable", "nofield"}
    \/ frame.kind = "event" /\ ~IsStr(frame.ts)

\* C32: past its key and credential checks display_deploy_milestones raises
\* nothing: a connection that cannot be opened, a closed connection, an
\* undecodable frame or an event lacking a member ends the stream and the
\* function returns normally; the command does not fail.
C32_ObservationFailureNotPropagated ==
    /\ MilestonesStarted =>
        /\ last.exc = ""
        /\ pc \in {"streaming", "exited"}
        /\ pc = "exited" => obs.exit = "ok"
    /\ last.op = "milestone_frame" =>
        /\ last.exc = ""
        /\ obs.exit # "Exit1"
        /\ ObservationFailure(last.frame) =>
            /\ last.then = "raise"
            /\ pc = "exited" /\ obs.exit = "ok"

\* A frame that is no JSON ended the stream with passes left.
C32_Witness ==
    /\ last.op = "milestone_frame"
    /\ last.frame.kind = "undecodable"
    /\ last.then = "raise"
    /\ dep.recvs < DEPLOYMENT_EVENT_MESSAGES_RETRIES
    /\ pc = "exited" /\ obs.exit = "ok"

-----------------------------------------------------------------------------
(* log_out_on_browser *)

\* C33: log_out_on_browser leaves the credential file as it found it and
\* deletes no token; with or without a readable credential it opens the
\* logout URL once, with the cached invitation code or None, and the only
\* failure is a browser that cannot be opened.
C33_LogOutKeepsCredential ==
    last.op = "log_out_on_browser" =>
        /\ file = last.pre
        /\ obs.deletes = 0
        /\ obs.opens = 1
        /\ last.code = IF NoCredential(last.pre) \/ last.pre.code = Missing
                        THEN None ELSE last.pre.code
        /\ last.exc = IF last.opened THEN "" ELSE "SystemExit"
        /\ obs.exit = IF last.opened THEN "ok" ELSE "SystemExit"

\* The logout page was opened although the credential file holds no JSON.
C33_Witness ==
    /\ last.op = "log_out_on_browser"
    /\ last.pre.kind = "garbage"
    /\ last.lmsg = "no existing login found"
    /\ obs.opens = 1
    /\ last.opened /\ obs.exit = "ok"
    /\ file = last.pre

-----------------------------------------------------------------------------
(* Authenticated operations *)

\* The steps that are one call of an authenticated operation.
AuthenticatedOps ==
    {"prepare_deploy", "deploy", "name_of_deployment", "deploy_call", "deploy_upload",
     "list_deployments", "delete_deployment", "get_deployment_status", "get_logs",
     "display_deploy_milestones", "deploy_observe"}

\* The operations that test their key ahead of the credential.
KeyFirstOps == {"get_deployment_status", "display_deploy_milestones", "deploy_observe"}

\* The step sent its own request with the token the file held when it began,
\* validated in the same call; without a validated token it sent nothing.
SendsStoredToken ==
    /\ last'.sent =>
        /\ last'.read
        /\ last'.verdict = "ok"
        /\ file.kind = "object" /\ file.token \in Tokens
        /\ last'.bearer = file.token
    /\ last'.verdict # "ok" => ~last'.sent /\ last'.bearer = None

\* C34 as stated: every authenticated operation reads the credential record
\* at its start, whatever its arguments, and sends the token stored at that
\* moment after validating it.
C34_Original ==
    [][last'.op \in AuthenticatedOps => last'.read /\ SendsStoredToken]_vars

\* C34: every authenticated operation reads the credential record ahead of
\* its own request, except that get_deployment_status and
\* display_deploy_milestones refuse an empty key without reading it; the
\* token sent is the one the file held when the call began, validated in
\* the same call, and without a validated token no request is sent.
C34_StoredTokenSent ==
    [][last'.op \in AuthenticatedOps =>
            /\ last'.read \/ (last'.op \in KeyFirstOps /\ ~Truthy(last'.key))
            /\ ~last'.read =>
                    /\ last'.exc = "ValueError"
                    /\ last'.verdict = "none"
                    /\ file' = file
            /\ SendsStoredToken]_vars

\* list_deployments sent its request with the token of the file, the second
\* of the two tokens.
C34_Witness ==
    /\ last.op = "list_deployments"
    /\ last.sent /\ last.verdict = "ok"
    /\ last.pre.token = "t2"
    /\ last.bearer = "t2"
    /\ last.returned

-----------------------------------------------------------------------------
(* Key resolution: the triple returned *)

\* The DeploymentPrepInfo objects the server sends.
ServerInfos == {Info1, Info2}

\* Interactive key resolution has set key_candidate, api_url and deploy_url.
Resolving == dep.interactive /\ dep.branch # "none"

\* C35: throughout interactive key resolution key_candidate, api_url and
\* deploy_url are the three fields of one DeploymentPrepInfo sent by the
\* server; while the prompt loop runs they are those of the suggestion, however
\* many prepare calls failed or answered with another key, and they change
\* only, all three at once, to those of a reply that confirms the name
\* entered.
C35_TripleFromOneInfo ==
    Resolving =>
        /\ \E info \in ServerInfos : dep.triple = Triple(info)
        /\ pc \in {"asking", "confirming"} =>
            /\ dep.branch = "suggestion"
            /\ dep.triple.key = dep.suggested
        /\ last.op = "name_of_deployment" =>
            \/ /\ prep.exc = "" /\ prep.obj.reply.tag = "info"
               /\ prep.obj.reply.key = dep.input
               /\ dep.triple = Triple(prep.obj.reply)
            \/ /\ ~(prep.exc = "" /\ prep.obj.reply.tag = "info"
                        /\ prep.obj.reply.key = dep.input)
               /\ dep.triple.key = dep.suggested

\* The server answered the name k3 with a reply for k1: the suggestion's
\* key and urls are kept and the user is asked again.
C35_Witness ==
    /\ Resolving
    /\ last.op = "name_of_deployment"
    /\ dep.input = "k3"
    /\ prep.exc = "" /\ prep.obj.reply = Info1
    /\ dep.triple = Triple(Info2)
    /\ pc = "asking"

-----------------------------------------------------------------------------
(* After delete_token_from_config *)

\* The step ran delete_token_from_config (validate_token_with_retries, on a
\* denial, ahead of its SystemExit).
DeleteRuns == last'.op = "validate_token_with_retries" /\ last'.exc = "SystemExit"

\* The step is a save_token_to_config that wrote the record.
SuccessfulSave == last'.op = "save_token_to_config" /\ last'.io = "ok"

\* get_existing_access_token fails with 'no existing login found' and
\* authenticated_token returns None, whatever the server would answer.
NoLoginFound(f) ==
    /\ \E g \in {get_existing_access_token(f)} :
            g.exc = "Exception" /\ g.msg = "no existing login found"
    /\ \A vresp \in HttpOutcomes :
            \E a \in {authenticated_token(f, vresp)} : a.ret = None /\ a.exc = ""

\* C36 as stated: whenever delete_token_from_config has run on an existing
\* file no login is found until the next successful save, and on an absent
\* file it creates nothing.
C36_Original ==
    [][/\ (DeleteRuns /\ file.kind # "absent") => NoLoginFound(file')
       /\ (DeleteRuns /\ file.kind = "absent") => file' = file
       /\ (~SuccessfulSave /\ file' # file /\ NoLoginFound(file)) =>
            NoLoginFound(file')]_vars

\* C36: when delete_token_from_config has run on an existing file that it
\* could open for writing, no login is found (get_existing_access_token
\* fails with 'no existing login found', authenticated_token returns None)
\* from then until the next successful save_token_to_config; when the file
\* cannot be opened for writing the failure is swallowed and the record stays
\* as it was; on an absent file it creates nothing.
C36_NoLoginAfterDelete ==
    [][/\ (DeleteRuns /\ file.kind # "absent" /\ last'.io = "ok") =>
            file' = EmptyFile /\ NoLoginFound(file')
       /\ (DeleteRuns /\ file.kind # "absent" /\ last'.io = "open_fails") =>
            file' = file
       /\ (DeleteRuns /\ file.kind = "absent") => file' = file
       /\ (~SuccessfulSave /\ file' # file /\ NoLoginFound(file)) =>
            NoLoginFound(file')]_vars

\* delete_token_from_config has just run on a file that held a token and an
\* invitation code: the file is empty and no login is found.
C36_Witness ==
    /\ last.op = "validate_token_with_retries" /\ last.exc = "SystemExit"
    /\ last.io = "ok"
    /\ last.pre.kind = "object" /\ last.pre.token \in Tokens /\ last.pre.code \in Codes
    /\ file = EmptyFile
    /\ NoLoginFound(file)

-----------------------------------------------------------------------------
(* The milestone stream: heartbeats *)

\* C37: in display_deploy_milestones a frame that is empty or no object uses
\* up one pass of the loop as an event does: the frames received, heartbeats
\* included, never exceed DEPLOYMENT_EVENT_MESSAGES_RETRIES, and when the
\* last pass received a heartbeat the function returns.
C37_HeartbeatsCount ==
    /\ (pc = "streaming" \/ last.op = "milestone_frame") =>
        /\ dep.frames <= dep.recvs
        /\ dep.recvs <= DEPLOYMENT_EVENT_MESSAGES_RETRIES
        /\ dep.shown <= dep.frames
    /\ (last.op = "milestone_frame" /\ Heartbeat(last.frame)) =>
        /\ dep.frames >= 1
        /\ last.line = None
        /\ IF dep.recvs = DEPLOYMENT_EVENT_MESSAGES_RETRIES
           THEN pc = "exited" /\ obs.exit = "ok"
           ELSE pc = "streaming"
    /\ (last.op = "milestone_frame" /\ dep.shown = 0 /\ last.then = "next") =>
        dep.frames = dep.recvs

\* Heartbeats alone used up every pass: the function returned with nothing
\* shown.
C37_Witness ==
    /\ last.op = "milestone_frame"
    /\ Heartbeat(last.frame)
    /\ dep.recvs = DEPLOYMENT_EVENT_MESSAGES_RETRIES
    /\ dep.frames = DEPLOYMENT_EVENT_MESSAGES_RETRIES
    /\ dep.shown = 0
    /\ pc = "exited" /\ obs.exit = "ok"

====
